---- MODULE Spec2Model ----
(***************************************************************************)
(* Leak detection for school sites: the per-site incident state machine    *)
(* (SchoolLeakDetector.state_machine), its scoring rules (leak_scoring),   *)
(* the replay runner (process_site) and the multi-site pipeline            *)
(* (run_efficient_pipeline).                                               *)
(*                                                                         *)
(* Units.  Python floats are modelled by scaled integers:                  *)
(*   sub-scores      in thousandths        (1000 stands for 1.0)           *)
(*   leak_score      in thousandths        (30000 stands for 30.0)         *)
(*   confidence      in thousandths of a % (70000 stands for 70.0)         *)
(*   deltaNF, NF_MAD, theta_min in L/h                                     *)
(*   volume_lost_kL  in litres             (deltaNF * 24, i.e. kL * 1000)  *)
(* Days are the integers 1..n (the hourly resample of preprocess makes the *)
(* daily index contiguous); a date key (strftime "%Y-%m-%d") is the pair   *)
(* <<first three characters of the year, day>>.                            *)
(***************************************************************************)
EXTENDS Integers, Sequences, FiniteSets, TLC

VARIABLES
    cfg,                        \* self.cfg
    decade,                     \* first three characters of the dates' year
    n,                          \* len(days): days of history in self.df
    data,                       \* what self.df holds, per day, as far as read
    data_theta,                 \* what get_adaptive_threshold computes on self.df
    theta_min,                  \* self.theta_min (0 stands for None)
    signal_components_by_date,  \* self.signal_components_by_date
    confidence_by_date,         \* self.confidence_by_date
    incidents,                  \* self.incidents
    pattern_suppressions,       \* self.pattern_suppressions
    daily_outputs,              \* daily_outputs / self.daily_outputs
    active,                     \* local `active`: index into incidents, 0 = None
    last_committed,             \* local `last_committed`: index, 0 = None
    i,                          \* position of the day loop
    pc,                         \* "idle" | "loop" | "done" | "failed"
    calls,                      \* state_machine calls on this detector
    returned,                   \* the incident list seen after each call
    run,                        \* process_site invocations for the site
    prev_signal_components,     \* process_site local of that name
    prev_confidence_by_date,    \* process_site local of that name
    pn_args,                    \* arguments of a get_persistence_needed call
    pn_result,                  \* what the call returned (0 = not called yet)
    school_dfs,                 \* run_efficient_pipeline: the input frames
    up_to_date,                 \* run_efficient_pipeline: a cutoff was given
    sliced_dfs,                 \* run_efficient_pipeline local
    results,                    \* run_efficient_pipeline local
    site_detectors,             \* run_efficient_pipeline local
    all_confirmed_leaks,        \* run_efficient_pipeline local
    pl_pc,                      \* position of run_efficient_pipeline
    pl_error,                   \* where run_efficient_pipeline raised ("" = nowhere)
    vc_cfg,                     \* the cfg handed to validate_config
    vc_result,                  \* what validate_config did ("" = not called yet)
    bl_args,                    \* a signals_and_score call seen with its baseline
    bl_result,                  \* deltaNF and s_MNF of that call
    cs_args,                    \* arguments of a detect_cusum call
    cs_result,                  \* what the call returned (-1 = not called yet)
    fp_args,                    \* arguments of a calculate_signal_similarity call
    fp_result,                  \* what the call returned (-1 = not called yet)
    ss_args,                    \* arguments of an apply_seasonal_confidence_boost call
    ss_result,                  \* the factor it got and the score it returned
    patterns_file,              \* PATTERNS_FILE: what is on disk
    now,                        \* datetime.now(), in days
    ops,                        \* pattern-engine calls made so far
    pt_call,                    \* the last pattern-engine call and what it returned
    deactivated_by_report,      \* ids that report_pattern_was_real_leak deactivated
    w_op,                       \* per concurrent writer: the operation it runs
    w_pc,                       \* per writer: "start" | "loaded" | "done"
    w_df                        \* per writer: its local df

gate_vars == <<pn_args, pn_result>>
pipeline_vars == <<school_dfs, up_to_date, sliced_dfs, results, site_detectors,
                   all_confirmed_leaks, pl_pc, pl_error>>
config_vars == <<vc_cfg, vc_result>>
baseline_vars == <<bl_args, bl_result>>
cusum_vars == <<cs_args, cs_result>>
similarity_vars == <<fp_args, fp_result>>
season_vars == <<ss_args, ss_result>>
writer_vars == <<w_op, w_pc, w_df>>
store_vars == <<patterns_file, now, ops, pt_call, deactivated_by_report,
                writer_vars>>
engine_vars == <<config_vars, baseline_vars, cusum_vars, similarity_vars,
                 season_vars, store_vars>>
aside_vars == <<gate_vars, pipeline_vars, engine_vars>>

vars == <<cfg, decade, n, data, data_theta, theta_min, signal_components_by_date,
          confidence_by_date, incidents, pattern_suppressions, daily_outputs,
          active, last_committed, i, pc, calls, returned, run,
          prev_signal_components, prev_confidence_by_date, gate_vars, pipeline_vars,
          engine_vars>>

(***************************************************************************)
(* Bounds of the model.                                                    *)
(***************************************************************************)
MaxDays == 6
MaxCalls == 2
MaxRecallDays == 4
MaxRuns == 2
MaxReplayDays == 4

Min2(a, b) == IF a <= b THEN a ELSE b
Max2(a, b) == IF a >= b THEN a ELSE b
SetMin(S) == CHOOSE x \in S : \A y \in S : x <= y

EmptyMap == [k \in {} |-> 0]
Put(f, k, v) == [x \in (DOMAIN f) \cup {k} |-> IF x = k THEN v ELSE f[x]]

Signals == {"MNF", "RESIDUAL", "CUSUM", "AFTERHRS", "BURSTBF"}
Buckets == {"<100", "100-200", "200-1000", ">=1000"}

(***************************************************************************)
(* Configurations (the YAML file is an input of the program).              *)
(***************************************************************************)
Bands ==
    << [s |-> "S1", low |-> 0,     high |-> 200],
       [s |-> "S2", low |-> 200,   high |-> 1000],
       [s |-> "S3", low |-> 1000,  high |-> 5000],
       [s |-> "S4", low |-> 5000,  high |-> 10000],
       [s |-> "S5", low |-> 10000, high |-> 1000000] >>

Weights == [MNF |-> 40, RESIDUAL |-> 20, CUSUM |-> 15, AFTERHRS |-> 15, BURSTBF |-> 10]

GatesShort == [b \in Buckets |-> [fast_min |-> 1, default_max |-> 2]]
GatesLong == [b \in Buckets |->
                 IF b = ">=1000" THEN [fast_min |-> 1, default_max |-> 3]
                                 ELSE [fast_min |-> 3, default_max |-> 4]]

MkCfg(gap, gates) ==
    [ baseline_window_days |-> 1,
      abs_floor_lph        |-> 20,
      merge_gap_days       |-> gap,
      score_weights        |-> Weights,
      persistence_gates    |-> gates,
      severity_bands_lph   |-> Bands ]

Cfgs == { MkCfg(1, GatesShort), MkCfg(2, GatesLong) }

(***************************************************************************)
(* leak_scoring.py                                                         *)
(***************************************************************************)
get_severity(delta_nf, severity_bands) ==
    LET hits == { j \in 1..Len(severity_bands) :
                    /\ severity_bands[j].low <= delta_nf
                    /\ delta_nf < severity_bands[j].high }
    IN  IF hits # {} THEN severity_bands[SetMin(hits)].s
        ELSE IF delta_nf >= 10000 THEN "S5" ELSE "S1"

get_confidence(sub_scores, persistence_days, delta_nf, nf_mad) ==
    LET sig_agree    == Cardinality({ k \in DOMAIN sub_scores : sub_scores[k] >= 700 })
        norm_snr     == Min2(1000, (delta_nf * 100) \div Max2(nf_mad, 1))
        norm_persist == Min2(1000, persistence_days * 100)
        norm_agree   == sig_agree * 200
        confidence   == (3 * norm_snr + 3 * norm_persist + 4 * norm_agree) * 10
    IN  Min2(100000, Max2(0, confidence))

\* the gate without the floor of line 80
PersistenceNeededNoFloor(delta_nf, sig_agree, confidence, persistence_gates) ==
    LET gate == IF delta_nf < 100 THEN persistence_gates["<100"]
                ELSE IF delta_nf < 200 THEN persistence_gates["100-200"]
                ELSE IF delta_nf < 1000 THEN persistence_gates["200-1000"]
                ELSE persistence_gates[">=1000"]
    IN  IF sig_agree >= 3 /\ confidence >= 70000 THEN gate.fast_min
                                                 ELSE gate.default_max

get_persistence_needed(delta_nf, sig_agree, confidence, persistence_gates) ==
    LET gate == IF delta_nf < 100 THEN persistence_gates["<100"]
                ELSE IF delta_nf < 200 THEN persistence_gates["100-200"]
                ELSE IF delta_nf < 1000 THEN persistence_gates["200-1000"]
                ELSE persistence_gates[">=1000"]
        needed == IF sig_agree >= 3 /\ confidence >= 70000 THEN gate.fast_min
                                                           ELSE gate.default_max
    IN  Max2(3, needed)

(***************************************************************************)
(* SchoolLeakDetector helpers                                              *)
(***************************************************************************)
sev_rank(s) ==
    CASE s = "S1" -> 1 [] s = "S2" -> 2 [] s = "S3" -> 3
      [] s = "S4" -> 4 [] s = "S5" -> 5 [] OTHER -> 1

d_key(d) == <<decade, d>>

(***************************************************************************)
(* One day of self.df as signals_and_score reads it: the night-flow excess *)
(* over the rolling baseline, the baseline's MAD, the three sub-scores     *)
(* computed from hourly data, and whether any hour spikes above            *)
(* spike_multiplier x its hourly profile.                                  *)
(***************************************************************************)
Quiet  == [RESIDUAL |-> 0,    CUSUM |-> 0,    AFTERHRS |-> 0,    spike |-> FALSE]
Strong == [RESIDUAL |-> 1000, CUSUM |-> 1000, AFTERHRS |-> 1000, spike |-> FALSE]
Spiky  == [RESIDUAL |-> 0,    CUSUM |-> 0,    AFTERHRS |-> 500,  spike |-> TRUE]
DayOf(dn, e) == [deltaNF |-> dn, NF_MAD |-> 5, ev |-> e]
DayInputs ==
    { DayOf(0, Quiet), DayOf(300, Quiet), DayOf(6000, Quiet),
      DayOf(0, Strong), DayOf(300, Strong), DayOf(300, Spiky) }
Thetas == {20, 500}

\* lines 149-155
s_MNF(deltaNF, NF_MAD) ==
    LET thresh == Max2(3 * NF_MAD, cfg.abs_floor_lph)
    IN  IF deltaNF > thresh
        THEN Max2(0, Min2(1000, ((deltaNF - thresh) * 1000)
                                    \div (thresh + cfg.abs_floor_lph)))
        ELSE 0

\* the burst signal that counts a spike on the final day without looking ahead
s_BFUnconfirmed(d, df) ==
    IF /\ df[d].ev.spike
       /\ \/ d + 1 > n
          \/ df[d + 1].deltaNF > Max2(3 * df[d + 1].NF_MAD, cfg.abs_floor_lph)
    THEN 1000 ELSE 0

\* lines 215-242: a spike on d counts when the next day exists and its
\* night-flow excess is above max(3 x its MAD, abs_floor_lph)
s_BF(d, df) ==
    IF /\ df[d].ev.spike
       /\ d + 1 <= n
       /\ df[d + 1].deltaNF > Max2(3 * df[d + 1].NF_MAD, cfg.abs_floor_lph)
    THEN 1000 ELSE 0

RECURSIVE WeightedSum(_, _)
WeightedSum(sub_scores, S) ==
    IF S = {} THEN 0
    ELSE LET k == CHOOSE x \in S : TRUE
         IN  cfg.score_weights[k] * sub_scores[k] + WeightedSum(sub_scores, S \ {k})

signals_and_score(d, df) ==
    LET sub_scores == [ MNF      |-> s_MNF(df[d].deltaNF, df[d].NF_MAD),
                        RESIDUAL |-> df[d].ev.RESIDUAL,
                        CUSUM    |-> df[d].ev.CUSUM,
                        AFTERHRS |-> df[d].ev.AFTERHRS,
                        BURSTBF  |-> s_BF(d, df) ]
        leak_score == Min2(100000, Max2(0, WeightedSum(sub_scores, Signals)))
    IN  [ sub_scores |-> sub_scores, leak_score |-> leak_score,
          deltaNF |-> df[d].deltaNF, NF_MAD |-> df[d].NF_MAD ]

(***************************************************************************)
(* state_machine: the pieces of one iteration of the day loop              *)
(***************************************************************************)
\* signals_and_score on every visit of day d, whatever the cache holds; a day
\* of self.df that no earlier step looked at is a quiet one
SignalsRecomputed(d, df) ==
    signals_and_score(d, [x \in 1..(n + 1) |->
                             IF x \in DOMAIN df THEN df[x] ELSE DayOf(0, Quiet)])

\* lines 438-459: the frozen snapshot of day d, computed only when absent
SignalsFor(d, df) ==
    IF d_key(d) \in DOMAIN signal_components_by_date
    THEN signal_components_by_date[d_key(d)]
    ELSE signals_and_score(d, df)

SignalCacheAfter(d, snap) ==
    IF d_key(d) \in DOMAIN signal_components_by_date
    THEN signal_components_by_date
    ELSE Put(signal_components_by_date, d_key(d), snap)

\* lines 462-475
signals_fired_of(snap) == { k \in Signals : snap.sub_scores[k] > 0 }

\* the suppression test against abs_floor_lph in place of theta_min
SuppressBelowFloor(d, snap, df) ==
    /\ "BURSTBF" \in signals_fired_of(snap)
    /\ snap.sub_scores["BURSTBF"] > 0
    /\ d + 1 <= n
    /\ df[d + 1].deltaNF <= cfg.abs_floor_lph

Suppress(d, snap, df) ==
    /\ "BURSTBF" \in signals_fired_of(snap)
    /\ snap.sub_scores["BURSTBF"] > 0
    /\ d + 1 <= n
    /\ df[d + 1].deltaNF <= theta_min

\* line 486
PersistenceDays == IF active = 0 THEN 1 ELSE incidents[active].days_persisted + 1

\* get_confidence on every visit of day d, whatever the cache holds
ConfidenceRecomputed(d, snap) ==
    get_confidence(snap.sub_scores, PersistenceDays, snap.deltaNF, snap.NF_MAD)

\* lines 490-503: the frozen confidence of day d, computed only when absent
ConfidenceFor(d, snap) ==
    IF d_key(d) \in DOMAIN confidence_by_date
    THEN confidence_by_date[d_key(d)]
    ELSE get_confidence(snap.sub_scores, PersistenceDays, snap.deltaNF, snap.NF_MAD)

ConfidenceCacheAfter(d, confidence) ==
    IF d_key(d) \in DOMAIN confidence_by_date
    THEN confidence_by_date
    ELSE Put(confidence_by_date, d_key(d), confidence)

\* lines 506-508
Trigger(snap) ==
    \/ snap.leak_score >= 30000
    \/ /\ sev_rank(get_severity(snap.deltaNF, cfg.severity_bands_lph)) > 1
       /\ snap.deltaNF > theta_min

ArchiveEntry(snap, confidence) ==
    [ sub_scores |-> snap.sub_scores, deltaNF |-> snap.deltaNF,
      NF_MAD |-> snap.NF_MAD, confidence |-> confidence ]

\* lines 540-553: the incident of the "start fresh" branch
FreshIncident(d) ==
    [ status |-> "WATCH", start_day |-> d, last_day |-> d, max_deltaNF |-> 0,
      severity_max |-> "S1", days_persisted |-> 1, reason_codes |-> {},
      volume_lost_kL |-> 0, confidence |-> 0,
      signal_components_by_date |-> EmptyMap,
      alert_date |-> 0, close_reason |-> "" ]

\* the first incident seeded like the incident of the "start fresh" branch
FirstIncidentBlank(d, snap, confidence) == FreshIncident(d)

\* lines 609-637: the incident opened when nothing is active
FirstIncident(d, snap, confidence) ==
    [ status |-> "WATCH", start_day |-> d, last_day |-> d,
      max_deltaNF |-> snap.deltaNF,
      severity_max |-> get_severity(snap.deltaNF, cfg.severity_bands_lph),
      days_persisted |-> 1, reason_codes |-> signals_fired_of(snap),
      volume_lost_kL |-> snap.deltaNF * 24, confidence |-> confidence,
      signal_components_by_date |->
          Put(EmptyMap, d_key(d), ArchiveEntry(snap, confidence)),
      alert_date |-> d + get_persistence_needed(snap.deltaNF,
                            Cardinality(signals_fired_of(snap)), confidence,
                            cfg.persistence_gates) - 1,
      close_reason |-> "" ]

\* the placement with a bridged gap counted whole: 1 + (d - last_day) days
PlacedGapWhole(d) ==
    LET a     == incidents[active]
        gap_a == d - a.last_day
    IN  IF gap_a = 1
        THEN [ incs |-> [incidents EXCEPT ![active].last_day = d,
                                          ![active].days_persisted = @ + 1],
               act |-> active, lc |-> last_committed ]
        ELSE IF 1 < gap_a /\ gap_a <= cfg.merge_gap_days
        THEN [ incs |-> [incidents EXCEPT
                            ![active].days_persisted = @ + 1 + Max2(0, gap_a),
                            ![active].last_day = d],
               act |-> active, lc |-> last_committed ]
        ELSE IF /\ last_committed # 0
                /\ 0 < d - incidents[last_committed].last_day
                /\ d - incidents[last_committed].last_day <= cfg.merge_gap_days
        THEN [ incs |-> [incidents EXCEPT
                            ![last_committed].days_persisted =
                                @ + 1 + Max2(0, d - incidents[last_committed].last_day - 1),
                            ![last_committed].last_day = d],
               act |-> last_committed, lc |-> last_committed ]
        ELSE [ incs |-> Append(incidents, FreshIncident(d)),
               act |-> Len(incidents) + 1, lc |-> Len(incidents) + 1 ]

\* lines 511-555: where a triggered day goes when an incident is active
Placed(d) ==
    LET a     == incidents[active]
        gap_a == d - a.last_day
    IN  IF gap_a = 1
        THEN [ incs |-> [incidents EXCEPT ![active].last_day = d,
                                          ![active].days_persisted = @ + 1],
               act |-> active, lc |-> last_committed ]
        ELSE IF 1 < gap_a /\ gap_a <= cfg.merge_gap_days
        THEN [ incs |-> [incidents EXCEPT
                            ![active].days_persisted = @ + 1 + Max2(0, gap_a - 1),
                            ![active].last_day = d],
               act |-> active, lc |-> last_committed ]
        ELSE IF /\ last_committed # 0
                /\ 0 < d - incidents[last_committed].last_day
                /\ d - incidents[last_committed].last_day <= cfg.merge_gap_days
        THEN [ incs |-> [incidents EXCEPT
                            ![last_committed].days_persisted =
                                @ + 1 + Max2(0, d - incidents[last_committed].last_day - 1),
                            ![last_committed].last_day = d],
               act |-> last_committed, lc |-> last_committed ]
        ELSE [ incs |-> Append(incidents, FreshIncident(d)),
               act |-> Len(incidents) + 1, lc |-> Len(incidents) + 1 ]

\* the update with max_deltaNF taken from the day alone
UpdateAttributesLatest(inc, d, snap, confidence) ==
    LET severity == get_severity(snap.deltaNF, cfg.severity_bands_lph)
    IN  [ inc EXCEPT
            !.max_deltaNF    = snap.deltaNF,
            !.severity_max   = IF sev_rank(severity) > sev_rank(@) THEN severity ELSE @,
            !.reason_codes   = @ \cup signals_fired_of(snap),
            !.volume_lost_kL = @ + snap.deltaNF * 24,
            !.signal_components_by_date = Put(@, d_key(d), ArchiveEntry(snap, confidence)),
            !.confidence     = confidence ]

\* the update that keeps the larger of the incident's and the day's confidence
UpdateAttributesPeakConfidence(inc, d, snap, confidence) ==
    LET severity == get_severity(snap.deltaNF, cfg.severity_bands_lph)
    IN  [ inc EXCEPT
            !.max_deltaNF    = Max2(@, snap.deltaNF),
            !.severity_max   = IF sev_rank(severity) > sev_rank(@) THEN severity ELSE @,
            !.reason_codes   = @ \cup signals_fired_of(snap),
            !.volume_lost_kL = @ + snap.deltaNF * 24,
            !.signal_components_by_date = Put(@, d_key(d), ArchiveEntry(snap, confidence)),
            !.confidence     = Max2(@, confidence) ]

\* lines 557-578
UpdateAttributes(inc, d, snap, confidence) ==
    LET severity == get_severity(snap.deltaNF, cfg.severity_bands_lph)
    IN  [ inc EXCEPT
            !.max_deltaNF    = Max2(@, snap.deltaNF),
            !.severity_max   = IF sev_rank(severity) > sev_rank(@) THEN severity ELSE @,
            !.reason_codes   = @ \cup signals_fired_of(snap),
            !.volume_lost_kL = @ + snap.deltaNF * 24,
            !.signal_components_by_date = Put(@, d_key(d), ArchiveEntry(snap, confidence)),
            !.confidence     = confidence ]

\* the gate of the active incident without the floor of three days
NeededNoFloor(inc) ==
    PersistenceNeededNoFloor(inc.max_deltaNF, Cardinality(inc.reason_codes),
                             inc.confidence, cfg.persistence_gates)

\* lines 588-592
Needed(inc) ==
    get_persistence_needed(inc.max_deltaNF, Cardinality(inc.reason_codes),
                           inc.confidence, cfg.persistence_gates)

\* the escalation with CALL for severity alone, whatever the confidence
EscalatedBySeverity(inc, needed) ==
    IF inc.days_persisted >= needed
    THEN IF sev_rank(inc.severity_max) >= 4 THEN "CALL" ELSE "INVESTIGATE"
    ELSE inc.status

\* the escalation one day late: days_persisted > needed
EscalatedStrictly(inc, needed) ==
    IF inc.days_persisted > needed
    THEN LET s1 == IF sev_rank(inc.severity_max) <= 3 THEN "INVESTIGATE" ELSE inc.status
         IN  IF \/ sev_rank(inc.severity_max) >= 4
                \/ (sev_rank(inc.severity_max) >= 2 /\ inc.confidence >= 70000)
             THEN "CALL" ELSE s1
    ELSE inc.status

\* the escalation without the persistence test of line 598
EscalatedAtOnce(inc, needed) ==
    LET s1 == IF sev_rank(inc.severity_max) <= 3 THEN "INVESTIGATE" ELSE inc.status
    IN  IF \/ sev_rank(inc.severity_max) >= 4
           \/ (sev_rank(inc.severity_max) >= 2 /\ inc.confidence >= 70000)
        THEN "CALL" ELSE s1

\* the escalation that falls back to WATCH while the gate is not met
EscalatedOrWatch(inc, needed) ==
    IF inc.days_persisted >= needed
    THEN LET s1 == IF sev_rank(inc.severity_max) <= 3 THEN "INVESTIGATE" ELSE inc.status
         IN  IF \/ sev_rank(inc.severity_max) >= 4
                \/ (sev_rank(inc.severity_max) >= 2 /\ inc.confidence >= 70000)
             THEN "CALL" ELSE s1
    ELSE "WATCH"

\* lines 598-605
Escalated(inc, needed) ==
    IF inc.days_persisted >= needed
    THEN LET s1 == IF sev_rank(inc.severity_max) <= 3 THEN "INVESTIGATE" ELSE inc.status
         IN  IF \/ sev_rank(inc.severity_max) >= 4
                \/ (sev_rank(inc.severity_max) >= 2 /\ inc.confidence >= 70000)
             THEN "CALL" ELSE s1
    ELSE inc.status

\* closure without the status test
ClosableAny(inc) == inc.status \in {"WATCH", "INVESTIGATE", "CALL"}

\* lines 642, 650: only an unconfirmed active incident may be closed
Closable(inc) == inc.status \notin {"INVESTIGATE", "CALL"}

\* lines 643-644
ResolvedToday(snap) == snap.deltaNF <= Max2(3 * snap.NF_MAD, theta_min)

NextAction(status) ==
    IF status = "WATCH" THEN "Monitor next night"
    ELSE IF status = "INVESTIGATE" THEN "Caretaker walk-through"
    ELSE IF status = "CALL" THEN "Escalate to plumber" ELSE "None"

\* lines 655-675
DailyRecord(incs, act, snap, confidence) ==
    LET status == IF act # 0 THEN incs[act].status ELSE "OK"
    IN  [ kind |-> "full", status |-> status,
          severity |-> IF act # 0 THEN incs[act].severity_max ELSE "None",
          confidence |-> confidence, deltaNF |-> snap.deltaNF,
          days_persisted |-> IF act # 0 THEN incs[act].days_persisted ELSE 0,
          est_volume_lost_kL |-> IF act # 0 THEN incs[act].volume_lost_kL ELSE 0,
          reason_codes |-> IF act # 0 THEN incs[act].reason_codes ELSE {},
          next_action |-> NextAction(status), suppressed |-> "" ]

BareRecord(suppressed) ==
    [ kind |-> IF suppressed = "" THEN "warmup" ELSE "suppressed", status |-> "OK",
      severity |-> "None", confidence |-> 0, deltaNF |-> 0, days_persisted |-> 0,
      est_volume_lost_kL |-> 0, reason_codes |-> {},
      next_action |-> "None", suppressed |-> suppressed ]

(***************************************************************************)
(* What the iteration reads of self.df: day d when its snapshot is not     *)
(* cached, and day d+1 when BURSTBF of day d looks one day ahead.  x and y *)
(* are the values found there when the day was not read before.            *)
(***************************************************************************)
ReadDay(d, x) ==
    IF d_key(d) \in DOMAIN signal_components_by_date \/ d \in DOMAIN data
    THEN data ELSE Put(data, d, x)

LooksAhead(d, df) ==
    /\ d + 1 <= n
    /\ IF d_key(d) \in DOMAIN signal_components_by_date
       THEN signal_components_by_date[d_key(d)].sub_scores["BURSTBF"] > 0
       ELSE df[d].ev.spike

Read(d, x, y) ==
    LET df1 == ReadDay(d, x)
    IN  IF LooksAhead(d, df1) /\ (d + 1) \notin DOMAIN df1
        THEN Put(df1, d + 1, y) ELSE df1

(***************************************************************************)
(* state_machine                                                           *)
(***************************************************************************)
detector_vars == <<cfg, decade, n, data_theta>>
replay_vars == <<run, prev_signal_components, prev_confidence_by_date>>

\* lines 404-427: baselining, get_adaptive_threshold, the loop's locals
StartLoop ==
    /\ pc' = "loop"
    /\ theta_min' = data_theta
    /\ daily_outputs' = EmptyMap
    /\ active' = 0
    /\ last_committed' = 0
    /\ i' = 1
    /\ calls' = calls + 1
    /\ UNCHANGED <<detector_vars, aside_vars, replay_vars, data, signal_components_by_date,
                   confidence_by_date, incidents, pattern_suppressions, returned>>

\* the call process_site makes (line 872)
StateMachineStart ==
    /\ pc = "idle"
    /\ StartLoop

\* state_machine called once more on the same detector, over the same self.df
StateMachineAgain ==
    /\ pc = "done"
    /\ calls < MaxCalls
    /\ StartLoop

InLoop == pc = "loop" /\ i <= n
WarmingUp(d) == (d - 1) < cfg.baseline_window_days

\* lines 431-433
DayWarmup ==
    /\ InLoop
    /\ WarmingUp(i)
    /\ daily_outputs' = Put(daily_outputs, i, BareRecord(""))
    /\ i' = i + 1
    /\ UNCHANGED <<detector_vars, aside_vars, replay_vars, data, theta_min,
                   signal_components_by_date, confidence_by_date, incidents,
                   pattern_suppressions, active, last_committed, pc, calls, returned>>

\* lines 435-483: the day is flagged EPISODIC FILL and skipped
DaySuppressed(df, snap) ==
    /\ Suppress(i, snap, df)
    /\ data' = df
    /\ signal_components_by_date' = SignalCacheAfter(i, snap)
    /\ pattern_suppressions' = Put(pattern_suppressions, i, "EPISODIC FILL")
    /\ daily_outputs' = Put(daily_outputs, i, BareRecord("EPISODIC FILL"))
    /\ i' = i + 1
    /\ UNCHANGED <<detector_vars, aside_vars, replay_vars, theta_min, confidence_by_date,
                   incidents, active, last_committed, pc, calls, returned>>

\* lines 641-646 and 649-652
CloseActive(incs, act) == [incs EXCEPT ![act].close_reason = "self-resolved/benign"]

\* the triggered day that, with nothing active, merges into the last committed
\* incident when it ended within merge_gap_days
TriggeredMergingClosed(d, snap, confidence) ==
    IF active # 0
    THEN LET placed    == Placed(d)
             updated   == UpdateAttributes(placed.incs[placed.act], d, snap, confidence)
             needed    == Needed(updated)
             escalated == [updated EXCEPT !.alert_date = updated.start_day + needed - 1,
                                          !.status = Escalated(updated, needed)]
         IN  [ incs |-> [placed.incs EXCEPT ![placed.act] = escalated],
               act |-> placed.act, lc |-> placed.lc ]
    ELSE IF /\ last_committed # 0
            /\ 0 < d - incidents[last_committed].last_day
            /\ d - incidents[last_committed].last_day <= cfg.merge_gap_days
    THEN [ incs |-> [incidents EXCEPT
                        ![last_committed] =
                            UpdateAttributes(
                                [@ EXCEPT !.days_persisted = @ + d - incidents[last_committed].last_day,
                                          !.last_day = d],
                                d, snap, confidence)],
           act |-> last_committed, lc |-> last_committed ]
    ELSE [ incs |-> Append(incidents, FirstIncident(d, snap, confidence)),
           act |-> Len(incidents) + 1, lc |-> Len(incidents) + 1 ]

\* lines 510-639: the incident list and the active incident after a triggered day
Triggered(d, snap, confidence) ==
    IF active # 0
    THEN LET placed    == Placed(d)
             updated   == UpdateAttributes(placed.incs[placed.act], d, snap, confidence)
             needed    == Needed(updated)
             escalated == [updated EXCEPT !.alert_date = updated.start_day + needed - 1,
                                          !.status = Escalated(updated, needed)]
         IN  [ incs |-> [placed.incs EXCEPT ![placed.act] = escalated],
               act |-> placed.act, lc |-> placed.lc ]
    ELSE [ incs |-> Append(incidents, FirstIncident(d, snap, confidence)),
           act |-> Len(incidents) + 1, lc |-> Len(incidents) + 1 ]

\* lines 641-646: an unconfirmed incident closes on a triggered day whose
\* night-flow excess is within max(3 x NF_MAD, theta_min)
ClosedOnTrigger(t, snap) ==
    IF Closable(t.incs[t.act]) /\ ResolvedToday(snap)
    THEN [incs |-> CloseActive(t.incs, t.act), act |-> 0]
    ELSE [incs |-> t.incs, act |-> t.act]

\* lines 648-652: an unconfirmed incident closes on a day without trigger
ClosedOnQuiet ==
    IF active # 0 /\ Closable(incidents[active])
    THEN [incs |-> CloseActive(incidents, active), act |-> 0]
    ELSE [incs |-> incidents, act |-> active]

\* lines 435-646 and 654-675: a triggered day
DayTrigger(df, snap) ==
    /\ ~Suppress(i, snap, df)
    /\ Trigger(snap)
    /\ \E confidence \in {ConfidenceFor(i, snap)} :
       \E t \in {Triggered(i, snap, confidence)} :
       \E c \in {ClosedOnTrigger(t, snap)} :
           /\ confidence_by_date' = ConfidenceCacheAfter(i, confidence)
           /\ incidents' = c.incs
           /\ active' = c.act
           /\ last_committed' = t.lc
           /\ daily_outputs' = Put(daily_outputs, i,
                                   DailyRecord(c.incs, c.act, snap, confidence))
    /\ data' = df
    /\ signal_components_by_date' = SignalCacheAfter(i, snap)
    /\ i' = i + 1
    /\ UNCHANGED <<detector_vars, aside_vars, replay_vars, theta_min, pattern_suppressions,
                   pc, calls, returned>>

\* lines 435-508 and 648-675: a day without trigger
DayNoTrigger(df, snap) ==
    /\ ~Suppress(i, snap, df)
    /\ ~Trigger(snap)
    /\ \E confidence \in {ConfidenceFor(i, snap)} :
       \E c \in {ClosedOnQuiet} :
           /\ confidence_by_date' = ConfidenceCacheAfter(i, confidence)
           /\ incidents' = c.incs
           /\ active' = c.act
           /\ daily_outputs' = Put(daily_outputs, i,
                                   DailyRecord(c.incs, c.act, snap, confidence))
    /\ data' = df
    /\ signal_components_by_date' = SignalCacheAfter(i, snap)
    /\ i' = i + 1
    /\ UNCHANGED <<detector_vars, aside_vars, replay_vars, theta_min, pattern_suppressions,
                   last_committed, pc, calls, returned>>

\* lines 677-692: the loop is over, state_machine returns
StateMachineReturn ==
    /\ pc = "loop"
    /\ i > n
    /\ pc' = "done"
    /\ returned' = Append(returned, incidents)
    /\ UNCHANGED <<detector_vars, aside_vars, replay_vars, data, theta_min,
                   signal_components_by_date, confidence_by_date, incidents,
                   pattern_suppressions, daily_outputs, active, last_committed,
                   i, calls>>

\* What is found in self.df where the iteration reads it for the first time.
FoundToday(d) ==
    IF d_key(d) \in DOMAIN signal_components_by_date \/ d \in DOMAIN data
    THEN {CHOOSE x \in DayInputs : TRUE} ELSE DayInputs
FoundNextDay(d, df1) ==
    IF LooksAhead(d, df1) /\ (d + 1) \notin DOMAIN df1
    THEN DayInputs ELSE {CHOOSE y \in DayInputs : TRUE}

Day ==
    /\ InLoop
    /\ ~WarmingUp(i)
    /\ \E x \in FoundToday(i) :
       \E y \in FoundNextDay(i, ReadDay(i, x)) :
       \E df \in {Read(i, x, y)} :
       \E snap \in {SignalsFor(i, df)} :
           \/ DaySuppressed(df, snap)
           \/ DayTrigger(df, snap)
           \/ DayNoTrigger(df, snap)

(***************************************************************************)
(* SchoolLeakDetector.__init__ (lines 50-72) followed by preprocess: a     *)
(* detector over a history of n days, nothing cached, no incident.         *)
(***************************************************************************)
DetectorOver(c, dec, len, th, df) ==
    /\ cfg = c
    /\ decade = dec
    /\ n = len
    /\ data = df
    /\ data_theta = th
    /\ theta_min = 0
    /\ signal_components_by_date = EmptyMap
    /\ confidence_by_date = EmptyMap
    /\ incidents = << >>
    /\ pattern_suppressions = EmptyMap
    /\ daily_outputs = EmptyMap
    /\ active = 0
    /\ last_committed = 0
    /\ i = 1
    /\ pc = "idle"
    /\ calls = 0
    /\ returned = << >>

NewDetector(c, dec, len, th) == DetectorOver(c, dec, len, th, EmptyMap)

NoReplay ==
    /\ run = 1
    /\ prev_signal_components = EmptyMap
    /\ prev_confidence_by_date = EmptyMap

\* no get_persistence_needed call under observation
NoGateCall ==
    /\ pn_args = [delta_nf |-> 0, sig_agree |-> 0, confidence |-> 0,
                  persistence_gates |-> GatesShort]
    /\ pn_result = 0

\* run_efficient_pipeline not running
NoPipeline ==
    /\ school_dfs = << >>
    /\ up_to_date = FALSE
    /\ sliced_dfs = << >>
    /\ results = << >>
    /\ site_detectors = {}
    /\ all_confirmed_leaks = << >>
    /\ pl_pc = "off"
    /\ pl_error = ""

\* validate_config not under observation
NoConfigCheck ==
    /\ vc_cfg = [present |-> {}, night_start |-> 0, night_end |-> 4,
                 abs_floor_lph |-> 20, score_weights |-> Weights]
    /\ vc_result = ""

\* no signals_and_score call looked at with its baseline window
NoBaselineCall ==
    /\ bl_args = [daily |-> <<0>>, d |-> 1, baseline_window_days |-> 1,
                  excluded_dates |-> {}]
    /\ bl_result = [called |-> FALSE, deltaNF |-> 0, NF_MAD |-> 0, s_MNF |-> 0]

\* no detect_cusum call under observation
NoCusumCall ==
    /\ cs_args = << >>
    /\ cs_result = -1

\* no calculate_signal_similarity call under observation
NoSimilarityCall ==
    /\ fp_args = << >>
    /\ fp_result = -1

\* no seasonal adjustment under observation
NoSeasonCall ==
    /\ ss_args = << >>
    /\ ss_result = << >>

\* no concurrent writers of the pattern file
NoWriters ==
    /\ w_op = << >>
    /\ w_pc = << >>
    /\ w_df = << >>

\* the pattern engine not in use: no pattern file yet
NoPatternStore ==
    /\ NoWriters
    /\ patterns_file = [kind |-> "absent", rows |-> << >>]
    /\ now = 1
    /\ ops = 0
    /\ pt_call = [op |-> "none"]
    /\ deactivated_by_report = {}

NoEngine ==
    /\ NoConfigCheck
    /\ NoBaselineCall
    /\ NoCusumCall
    /\ NoSimilarityCall
    /\ NoSeasonCall
    /\ NoPatternStore

\* One detector, state_machine called once.
Init ==
    /\ \E c \in Cfgs, len \in 1..MaxDays, th \in Thetas : NewDetector(c, "202", len, th)
    /\ NoReplay
    /\ NoGateCall
    /\ NoPipeline
    /\ NoEngine

Next ==
    \/ StateMachineStart
    \/ DayWarmup
    \/ Day
    \/ StateMachineReturn

Spec == Init /\ [][Next]_vars

\* One detector under gates that ask for more days once the night-flow excess
\* reaches 1000 L/h: an incident confirmed below that can meet a higher gate
\* later.
GatesSteep == [b \in Buckets |->
                 IF b = ">=1000" THEN [fast_min |-> 5, default_max |-> 5]
                                 ELSE [fast_min |-> 3, default_max |-> 3]]

InitSteep ==
    /\ \E len \in 1..MaxDays, th \in Thetas :
          NewDetector(MkCfg(1, GatesSteep), "202", len, th)
    /\ NoReplay
    /\ NoGateCall
    /\ NoPipeline
    /\ NoEngine

NextSteep ==
    \/ StateMachineStart
    \/ DayWarmup
    \/ Day
    \/ StateMachineReturn

SpecSteep == InitSteep /\ [][NextSteep]_vars

\* One detector, state_machine called up to MaxCalls times.
InitRecall ==
    /\ \E c \in Cfgs, len \in 1..MaxRecallDays, th \in Thetas :
           NewDetector(c, "202", len, th)
    /\ NoReplay
    /\ NoGateCall
    /\ NoPipeline
    /\ NoEngine

NextRecall ==
    \/ Next
    \/ StateMachineAgain

SpecRecall == InitRecall /\ [][NextRecall]_vars

(***************************************************************************)
(* process_site as the replay loop calls it: args =                        *)
(*   (site_id, df_slice, cfg, up_to_date, prev_signal_components,          *)
(*    prev_confidence_by_date)                                             *)
(* A candidate of `rest` is a date or a dict; of a dict the code looks at  *)
(* its keys and at whether its values are numbers.                         *)
(***************************************************************************)
Decades == {"201", "202"}

DateArg == [kind |-> "date", values |-> "none", map |-> EmptyMap]
DictArg(vals, m) == [kind |-> "dict", values |-> vals, map |-> m]

\* line 801: k.startswith("202")
StartsWith202(k) == k[1] = "202"

\* lines 800-802
LooksDateKeyed(c) ==
    /\ c.kind = "dict"
    /\ \E k \in DOMAIN c.map : StartsWith202(k)

\* line 805: all(isinstance(v, (int, float)) for v in candidate.values())
AllNumbers(c) == DOMAIN c.map = {} \/ c.values = "numbers"

\* lines 799-809: for candidate in reversed(rest)
RECURSIVE FindCaches(_, _, _)
FindCaches(r, j, found) ==
    IF j = 0 THEN found
    ELSE IF LooksDateKeyed(r[j])
         THEN IF found.conf = EmptyMap /\ AllNumbers(r[j])
              THEN FindCaches(r, j - 1, [found EXCEPT !.conf = r[j].map])
              ELSE IF found.sig = EmptyMap
              THEN FindCaches(r, j - 1, [found EXCEPT !.sig = r[j].map])
              ELSE FindCaches(r, j - 1, found)
         ELSE FindCaches(r, j - 1, found)

\* lines 853-862: a cache found in args replaces the new detector's empty one
Restored(prev) == IF prev # EmptyMap THEN prev ELSE EmptyMap

\* lines 785-872 up to the call of state_machine: the replay loop hands over
\* the caches of the site's last detector with a history that has grown
ProcessSite(len, th) ==
    /\ pc = "done"
    /\ run < MaxRuns
    /\ len >= n
    /\ LET rest  == << DateArg,
                       DictArg("dicts", signal_components_by_date),
                       DictArg("numbers", confidence_by_date) >>
           found == FindCaches(rest, Len(rest), [sig |-> EmptyMap, conf |-> EmptyMap])
       IN  /\ prev_signal_components' = found.sig
           /\ prev_confidence_by_date' = found.conf
           /\ confidence_by_date' = Restored(found.conf)
           /\ signal_components_by_date' = Restored(found.sig)
    /\ run' = run + 1
    /\ n' = len
    /\ data_theta' = th
    /\ data' = EmptyMap
    /\ theta_min' = 0
    /\ incidents' = << >>
    /\ pattern_suppressions' = EmptyMap
    /\ daily_outputs' = EmptyMap
    /\ active' = 0
    /\ last_committed' = 0
    /\ i' = 1
    /\ pc' = "idle"
    /\ calls' = 0
    /\ returned' = << >>
    /\ UNCHANGED <<cfg, decade, aside_vars>>

InitReplay ==
    /\ \E dec \in Decades, len \in 1..MaxReplayDays, th \in Thetas :
           NewDetector(MkCfg(2, GatesLong), dec, len, th)
    /\ NoReplay
    /\ NoGateCall
    /\ NoPipeline
    /\ NoEngine

NextReplay ==
    \/ Next
    \/ \E len \in 1..MaxReplayDays, th \in Thetas : ProcessSite(len, th)

SpecReplay == InitReplay /\ [][NextReplay]_vars

site_vars == <<detector_vars, replay_vars, data, theta_min,
               signal_components_by_date, confidence_by_date, incidents,
               pattern_suppressions, daily_outputs, active, last_committed,
               i, pc, calls, returned>>

\* a detector that exists while something else is looked at
IdleDetector ==
    /\ NewDetector(MkCfg(2, GatesLong), "202", 1, 20)
    /\ NoReplay

(***************************************************************************)
(* get_persistence_needed as a function of its four arguments              *)
(***************************************************************************)
GatesDeep == [b \in Buckets |->
                 CASE b = "<100"     -> [fast_min |-> 5, default_max |-> 7]
                   [] b = "100-200"  -> [fast_min |-> 4, default_max |-> 6]
                   [] b = "200-1000" -> [fast_min |-> 3, default_max |-> 5]
                   [] OTHER          -> [fast_min |-> 2, default_max |-> 4]]
GateCfgs == {GatesShort, GatesLong, GatesDeep}
DeltaArgs == {0, 99, 100, 199, 200, 999, 1000, 6000}
AgreeArgs == 0..Cardinality(Signals)
ConfidenceArgs == {0, 69999, 70000, 100000}

InitGate ==
    /\ IdleDetector
    /\ NoPipeline
    /\ NoEngine
    /\ pn_args \in [delta_nf : DeltaArgs, sig_agree : AgreeArgs,
                    confidence : ConfidenceArgs, persistence_gates : GateCfgs]
    /\ pn_result = 0

CallPersistenceNeeded ==
    /\ pn_result = 0
    /\ pn_result' = get_persistence_needed(pn_args.delta_nf, pn_args.sig_agree,
                                           pn_args.confidence,
                                           pn_args.persistence_gates)
    /\ UNCHANGED <<site_vars, pn_args, pipeline_vars, engine_vars>>

NextGate == CallPersistenceNeeded

SpecGate == InitGate /\ [][NextGate]_vars

(***************************************************************************)
(* run_efficient_pipeline (lines 934-1034).  A site's input is one of      *)
(*   frame     a DataFrame with a time column that the detector processes, *)
(*             yielding `confirmed` INVESTIGATE/CALL incidents             *)
(*   empty     a DataFrame with a time column and no rows                  *)
(*   no_time   a DataFrame with rows but neither time column nor time index*)
(*   bad_flow  a DataFrame on which preprocess or state_machine raises     *)
(*   none      None                                                        *)
(*   scalar    an object that is neither sized nor subscriptable           *)
(***************************************************************************)
MaxSites == 3

Frame(k, c) == [kind |-> k, confirmed |-> c]
SiteInputs ==
    { Frame("frame", 0), Frame("frame", 1), Frame("empty", 0), Frame("no_time", 0),
      Frame("bad_flow", 0), Frame("none", 0), Frame("scalar", 0) }

\* line 968: df[df["time"] <= pd.to_datetime(up_to_date)] evaluates
Sliceable(df) == df.kind \in {"frame", "empty", "bad_flow"}

\* lines 785-931 for args = (sid, df, cfg, leak_log, up_to_date)
process_site(sid, df) ==
    IF df.kind = "scalar"
    THEN [raised |-> TRUE, site_id |-> sid, detector |-> FALSE, confirmed_df |-> 0]
    ELSE IF df.kind \in {"none", "empty"}
    THEN [raised |-> FALSE, site_id |-> sid, detector |-> FALSE, confirmed_df |-> 0]
    ELSE IF df.kind = "no_time"
    THEN [raised |-> FALSE, site_id |-> sid, detector |-> FALSE, confirmed_df |-> 0]
    ELSE IF df.kind = "bad_flow"
    THEN [raised |-> FALSE, site_id |-> sid, detector |-> FALSE, confirmed_df |-> 0]
    ELSE [raised |-> FALSE, site_id |-> sid, detector |-> TRUE,
          confirmed_df |-> df.confirmed]

Sites == 1..Len(school_dfs)

InitPipeline ==
    /\ IdleDetector
    /\ NoGateCall
    /\ NoEngine
    /\ \E len \in 1..MaxSites : school_dfs \in [1..len -> SiteInputs]
    /\ up_to_date \in BOOLEAN
    /\ sliced_dfs = << >>
    /\ results = << >>
    /\ site_detectors = {}
    /\ all_confirmed_leaks = << >>
    /\ pl_pc = "start"
    /\ pl_error = ""

PipelineRaises(where) ==
    /\ pl_pc' = "raised"
    /\ pl_error' = where
    /\ UNCHANGED <<site_vars, gate_vars, engine_vars, school_dfs, up_to_date, sliced_dfs,
                   results, site_detectors, all_confirmed_leaks>>

\* lines 965-973
Slice ==
    /\ pl_pc = "start"
    /\ up_to_date => \A j \in Sites : Sliceable(school_dfs[j])
    /\ sliced_dfs' = school_dfs
    /\ pl_pc' = "sliced"
    /\ UNCHANGED <<site_vars, gate_vars, engine_vars, school_dfs, up_to_date, results,
                   site_detectors, all_confirmed_leaks, pl_error>>

\* line 968 raises KeyError or TypeError, outside any try
SliceRaises ==
    /\ pl_pc = "start"
    /\ up_to_date
    /\ \E j \in Sites : ~Sliceable(school_dfs[j])
    /\ PipelineRaises("slice")

\* lines 978-982
Dispatch ==
    /\ pl_pc = "sliced"
    /\ \A j \in Sites : ~process_site(j, sliced_dfs[j]).raised
    /\ results' = [j \in Sites |-> process_site(j, sliced_dfs[j])]
    /\ pl_pc' = "dispatched"
    /\ UNCHANGED <<site_vars, gate_vars, engine_vars, school_dfs, up_to_date, sliced_dfs,
                   site_detectors, all_confirmed_leaks, pl_error>>

\* line 982: list(executor.map(...)) re-raises what a worker raised
DispatchRaises ==
    /\ pl_pc = "sliced"
    /\ \E j \in Sites : process_site(j, sliced_dfs[j]).raised
    /\ PipelineRaises("worker")

\* lines 984-998: the records of the sites' confirmed_df, by site
RECURSIVE Extended(_, _, _)
Extended(leaks, res, j) ==
    IF j > Len(res) THEN leaks
    ELSE Extended(IF res[j].detector /\ res[j].confirmed_df > 0
                  THEN Append(leaks, res[j].site_id) ELSE leaks, res, j + 1)

Collect ==
    /\ pl_pc = "dispatched"
    /\ site_detectors' = { j \in Sites : results[j].detector }
    /\ all_confirmed_leaks' = Extended(all_confirmed_leaks, results, 1)
    /\ pl_pc' = "collected"
    /\ UNCHANGED <<site_vars, gate_vars, engine_vars, school_dfs, up_to_date, sliced_dfs,
                   results, pl_error>>

\* lines 1000-1034 with no confirmed leak: the summary is skipped
Save ==
    /\ pl_pc = "collected"
    /\ all_confirmed_leaks = << >>
    /\ pl_pc' = "finished"
    /\ UNCHANGED <<site_vars, gate_vars, engine_vars, school_dfs, up_to_date, sliced_dfs,
                   results, site_detectors, all_confirmed_leaks, pl_error>>

\* lines 1019-1028: agg names "total_volume_L" and "duration_hours", columns
\* that no incident record has
SaveRaises ==
    /\ pl_pc = "collected"
    /\ all_confirmed_leaks # << >>
    /\ PipelineRaises("summary")

NextPipeline ==
    \/ Slice
    \/ SliceRaises
    \/ Dispatch
    \/ DispatchRaises
    \/ Collect
    \/ Save
    \/ SaveRaises

SpecPipeline == InitPipeline /\ [][NextPipeline]_vars

(***************************************************************************)
(* validate_config (lines 1037-1070).  A cfg is the set of keys it holds   *)
(* and the values the checks read: the night window's hours, the floor and *)
(* the weight dictionary.                                                   *)
(***************************************************************************)
required_keys ==
    { "night_start", "night_end", "after_hours_start", "after_hours_end",
      "baseline_window_days", "abs_floor_lph", "sustained_after_hours_delta_kl",
      "spike_multiplier", "spike_ref_percentile", "score_weights",
      "persistence_gates", "severity_bands_lph", "cusum_k", "cusum_h",
      "export_folder", "data_path", "save_dir" }

expected_signals == {"MNF", "RESIDUAL", "CUSUM", "AFTERHRS", "BURSTBF"}

\* "ok" stands for returning None, the other values name the exception
validate_config(c) ==
    IF ~(required_keys \subseteq c.present) THEN "KeyError"
    ELSE IF c.night_start >= c.night_end THEN "ValueError"
    ELSE IF c.abs_floor_lph <= 0 THEN "ValueError"
    ELSE IF ~(\A k \in DOMAIN c.score_weights : c.score_weights[k] > 0)
         THEN "ValueError"
    ELSE IF DOMAIN c.score_weights # expected_signals THEN "ValueError"
    ELSE "ok"

\* the keys a YAML file of this program may hold (state_machine reads
\* merge_gap_days with cfg.get, line 416)
ConfigKeys == required_keys \cup {"merge_gap_days"}
KeySets == {ConfigKeys} \cup { ConfigKeys \ {k} : k \in ConfigKeys }
NightWindows == { <<0, 4>>, <<4, 4>>, <<5, 4>> }
FloorValues == {20, 0, -5}
WeightDicts ==
    { Weights,
      [k \in Signals \ {"BURSTBF"} |-> Weights[k]],
      Put(Weights, "PRESSURE", 10),
      Put(Weights, "CUSUM", 0),
      EmptyMap }

InitConfig ==
    /\ IdleDetector
    /\ NoGateCall
    /\ NoPipeline
    /\ \E ks \in KeySets, w \in NightWindows, f \in FloorValues, sw \in WeightDicts :
           vc_cfg = [present |-> ks, night_start |-> w[1], night_end |-> w[2],
                     abs_floor_lph |-> f, score_weights |-> sw]
    /\ vc_result = ""
    /\ NoBaselineCall
    /\ NoCusumCall
    /\ NoSimilarityCall
    /\ NoSeasonCall
    /\ NoPatternStore

ValidateConfig ==
    /\ vc_result = ""
    /\ vc_result' = validate_config(vc_cfg)
    /\ UNCHANGED <<site_vars, gate_vars, pipeline_vars, vc_cfg, baseline_vars,
                   cusum_vars,
                   similarity_vars, season_vars, store_vars>>

NextConfig == ValidateConfig

SpecConfig == InitConfig /\ [][NextConfig]_vars

(***************************************************************************)
(* signals_and_score with its baseline (lines 145-155): the night-flow     *)
(* excess of day d over the rolling baseline of get_rolling_baseline       *)
(* (lines 99-106), which is the median and MAD (statistical_utils.py) of   *)
(* the days of self.daily["NF_d"] in [d - baseline_window_days, d) that    *)
(* are not excluded.  Night flows are multiples of 4 L/h, so that every    *)
(* median and MAD is a whole number.                                       *)
(***************************************************************************)
MaxHistory == 3

\* the k-th smallest element of a non-empty sequence
Kth(seq, k) ==
    CHOOSE v \in { seq[j] : j \in 1..Len(seq) } :
        /\ Cardinality({ j \in 1..Len(seq) : seq[j] < v }) < k
        /\ Cardinality({ j \in 1..Len(seq) : seq[j] <= v }) >= k

\* np.median
Median(seq) ==
    IF Len(seq) % 2 = 1 THEN Kth(seq, (Len(seq) + 1) \div 2)
    ELSE (Kth(seq, Len(seq) \div 2) + Kth(seq, Len(seq) \div 2 + 1)) \div 2

\* statistical_utils.py lines 8-9
robust_median(series) == IF Len(series) > 0 THEN Median(series) ELSE 0

Abs(x) == IF x >= 0 THEN x ELSE 0 - x

\* statistical_utils.py lines 12-16
robust_mad(series) ==
    IF Len(series) > 0
    THEN LET med == Median(series)
         IN  Median([j \in 1..Len(series) |-> Abs(series[j] - med)])
    ELSE 0

\* the elements of seq at the positions in keep, in order
RECURSIVE Pick(_, _)
Pick(seq, keep) ==
    IF seq = << >> THEN << >>
    ELSE LET rest == Pick(SubSeq(seq, 1, Len(seq) - 1), keep)
         IN  IF Len(seq) \in keep THEN Append(rest, seq[Len(seq)]) ELSE rest

\* lines 99-106
get_rolling_baseline(a) ==
    LET hist_start == a.d - a.baseline_window_days
        sub == Pick(a.daily, { j \in 1..Len(a.daily) :
                                 /\ j >= hist_start
                                 /\ j < a.d
                                 /\ j \notin a.excluded_dates })
    IN  [sub |-> sub, NF_base |-> robust_median(sub), NF_MAD |-> robust_mad(sub)]

NightFlows == {0, 40, 400}

InitBaseline ==
    /\ IdleDetector
    /\ NoGateCall
    /\ NoPipeline
    /\ NoConfigCheck
    /\ \E len \in 1..MaxHistory :
         \E daily \in [1..len -> NightFlows], day \in 1..len, w \in 1..2,
            ex \in SUBSET (1..len) :
             bl_args = [daily |-> daily, d |-> day, baseline_window_days |-> w,
                        excluded_dates |-> ex]
    /\ bl_result = [called |-> FALSE, deltaNF |-> 0, NF_MAD |-> 0, s_MNF |-> 0]
    /\ NoCusumCall
    /\ NoSimilarityCall
    /\ NoSeasonCall
    /\ NoPatternStore

\* lines 146-155
ScoreNightFlow ==
    /\ ~bl_result.called
    /\ LET NF_d == bl_args.daily[bl_args.d]
           base == get_rolling_baseline(bl_args)
           deltaNF == Max2(0, NF_d - base.NF_base)
       IN  bl_result' = [called |-> TRUE, deltaNF |-> deltaNF,
                         NF_MAD |-> base.NF_MAD,
                         s_MNF |-> s_MNF(deltaNF, base.NF_MAD)]
    /\ UNCHANGED <<site_vars, gate_vars, pipeline_vars, config_vars, bl_args,
                   cusum_vars,
                   similarity_vars, season_vars, store_vars>>

NextBaseline == ScoreNightFlow

SpecBaseline == InitBaseline /\ [][NextBaseline]_vars

(***************************************************************************)
(* A site with a flat night flow that jumps: thirty days around 50 L/h     *)
(* (50 - spread, 50, 50 + spread in turn), then five days at 400 L/h, with *)
(* baseline_window_days = 14 and abs_floor_lph = 20.  self.daily and the   *)
(* hourly events of the five jump days are the inputs; the night-flow      *)
(* excess, its MAD and theta_min are computed from them as the detector    *)
(* does.                                                                   *)
(***************************************************************************)
GatesSlow == [b \in Buckets |-> [fast_min |-> 4, default_max |-> 5]]

ScenarioCfgs ==
    { [MkCfg(2, gates) EXCEPT !.baseline_window_days = 14] :
        gates \in {GatesShort, GatesLong, GatesSlow} }

ScenarioNightFlows ==
    { [d \in 1..35 |-> IF d <= 30 THEN 50 + spread * (((d + ph) % 3) - 1) ELSE 400] :
        spread \in {4, 6}, ph \in {0, 2} }

ScenarioEvents ==
    { [d \in 1..35 |-> IF d <= 30 THEN Quiet ELSE ev[d - 30]] :
        ev \in [1..5 -> {Quiet, Strong, Spiky}] }

\* lines 370-385
get_adaptive_threshold(c, daily) ==
    Max2(c.abs_floor_lph, robust_median(daily) + 2 * robust_mad(daily))

\* lines 146-149 and 99-106: day d of self.df as signals_and_score reads it
BaselinedDay(c, daily, events, d) ==
    LET base == get_rolling_baseline(
                    [daily |-> daily, d |-> d,
                     baseline_window_days |-> c.baseline_window_days,
                     excluded_dates |-> {}])
    IN  [deltaNF |-> Max2(0, daily[d] - base.NF_base), NF_MAD |-> base.NF_MAD,
         ev |-> events[d]]

InitScenario ==
    /\ \E c \in ScenarioCfgs, daily \in ScenarioNightFlows, events \in ScenarioEvents :
           DetectorOver(c, "202", 35, get_adaptive_threshold(c, daily),
                        [d \in 1..35 |-> BaselinedDay(c, daily, events, d)])
    /\ NoReplay
    /\ NoGateCall
    /\ NoPipeline
    /\ NoEngine

NextScenario ==
    \/ StateMachineStart
    \/ DayWarmup
    \/ Day
    \/ StateMachineReturn

SpecScenario == InitScenario /\ [][NextScenario]_vars

(***************************************************************************)
(* false_alarm_patterns.py: fingerprints and their similarity.             *)
(*                                                                         *)
(* Units.  Signal scores are in hundredths (round(score, 2)), MNF in L/h,  *)
(* volume in tenths of a kL, durations in hours, the MNF tolerance in      *)
(* hundredths, and every similarity in thousandths.  None is 0 for the MNF *)
(* (a zero MNF is not stored, line 161) and << >> for a range.              *)
(***************************************************************************)
DEFAULT_MNF_TOLERANCE == 30
MAX_MNF_TOLERANCE == 50
MIN_MNF_TOLERANCE == 15

\* lines 127-210; the incident's fields are None (0) or positive readings
create_signal_fingerprint(incident) ==
    LET act == { sg \in DOMAIN incident.subscores : incident.subscores[sg] > 10 }
    IN  [ signals_active |-> act,
          signal_scores  |-> [sg \in act |-> incident.subscores[sg]],
          mnf_value_Lph  |-> incident.mnf_Lph,
          volume_range   |-> IF incident.volume_kL # 0
                             THEN <<incident.volume_kL * 5, incident.volume_kL * 15>>
                             ELSE << >>,
          duration_range |-> IF incident.duration_hours # 0
                             THEN <<Max2(0, incident.duration_hours - 6),
                                    incident.duration_hours + 6>>
                             ELSE << >> ]

RECURSIVE SumOver(_, _)
SumOver(f, S) ==
    IF S = {} THEN 0
    ELSE LET x == CHOOSE y \in S : TRUE IN f[x] + SumOver(f, S \ {x})

(***************************************************************************)
(* statistical_utils.py: detect_cusum.  The series and mad are whole       *)
(* numbers, k and h are in tenths; every term of the running sum is        *)
(* scaled by 10 * len(series), which keeps the mean exact.                 *)
(***************************************************************************)
MaxSeries == 3
SeriesValues == {0, 10, 40}
CusumK == {5}
CusumH == {40, 50}
CusumMads == {0, 1, 5}

\* line 27's addend, series[i] - mean - k * mad, times 10 * len(series)
CusumTerm(series, k, mad, j) ==
    10 * Len(series) * series[j] - 10 * SumOver(series, DOMAIN series)
        - Len(series) * k * mad

\* lines 25-27: s_plus[0] stays 0 and the loop runs over range(1, len(series));
\* position j here is index j - 1 there
RECURSIVE s_plus(_, _, _, _)
s_plus(series, k, mad, j) ==
    IF j <= 1 THEN 0
    ELSE Max2(0, s_plus(series, k, mad, j - 1) + CusumTerm(series, k, mad, j))

\* lines 19-28; an empty series has an empty s_plus and np.any of it is False
detect_cusum(series, k, h, mad) ==
    IF \E j \in DOMAIN series : s_plus(series, k, mad, j) > Len(series) * h * mad
    THEN 1 ELSE 0

InitCusum ==
    /\ IdleDetector
    /\ NoGateCall
    /\ NoPipeline
    /\ NoConfigCheck
    /\ NoBaselineCall
    /\ \E len \in 0..MaxSeries :
         \E series \in [1..len -> SeriesValues], k \in CusumK, h \in CusumH,
            mad \in CusumMads :
             cs_args = [series |-> series, k |-> k, h |-> h, mad |-> mad]
    /\ cs_result = -1
    /\ NoSimilarityCall
    /\ NoSeasonCall
    /\ NoPatternStore

\* Model_1_realtime_simulation.py lines 96-97
DetectCusum ==
    /\ cs_result = -1
    /\ cs_result' = detect_cusum(cs_args.series, cs_args.k, cs_args.h, cs_args.mad)
    /\ UNCHANGED <<site_vars, gate_vars, pipeline_vars, config_vars, baseline_vars,
                   cs_args, similarity_vars, season_vars, store_vars>>

NextCusum == DetectCusum

SpecCusum == InitCusum /\ [][NextCusum]_vars

\* lines 1384-1451 without the clamps of the out-of-range branches
MnfSimilarityUnclamped(fp1, fp2, tolerance_factor) ==
    LET mnf1 == fp1.mnf_value_Lph
        mnf2 == fp2.mnf_value_Lph
        tol  == Max2(MIN_MNF_TOLERANCE, Min2(MAX_MNF_TOLERANCE,
                     IF tolerance_factor = 0 THEN DEFAULT_MNF_TOLERANCE
                                             ELSE tolerance_factor))
    IN  IF mnf1 = 0 \/ mnf2 = 0 THEN 500
        ELSE IF mnf1 * (100 - tol) <= mnf2 * 100 /\ mnf2 * 100 <= mnf1 * (100 + tol)
        THEN 1000 - (300 * Abs(mnf2 - mnf1) * 100) \div (mnf1 * tol)
        ELSE IF mnf2 * 100 < mnf1 * (100 - tol)
        THEN 500 - (500 * (mnf1 * (100 - tol) - mnf2 * 100)) \div (mnf1 * tol)
        ELSE 500 - (500 * (mnf2 * 100 - mnf1 * (100 + tol))) \div (mnf1 * tol)

\* lines 1384-1451; tolerance_factor 0 stands for None
calculate_mnf_similarity_adaptive(fp1, fp2, tolerance_factor) ==
    LET mnf1 == fp1.mnf_value_Lph
        mnf2 == fp2.mnf_value_Lph
        tol  == Max2(MIN_MNF_TOLERANCE, Min2(MAX_MNF_TOLERANCE,
                     IF tolerance_factor = 0 THEN DEFAULT_MNF_TOLERANCE
                                             ELSE tolerance_factor))
        base == mnf1 * tol
    IN  IF mnf1 = 0 \/ mnf2 = 0 THEN 500
        ELSE IF mnf1 * (100 - tol) <= mnf2 * 100 /\ mnf2 * 100 <= mnf1 * (100 + tol)
        THEN IF base > 0 THEN 1000 - (300 * Abs(mnf2 - mnf1) * 100) \div base
                         ELSE 1000
        ELSE LET overshoot == IF mnf2 * 100 < mnf1 * (100 - tol)
                              THEN mnf1 * (100 - tol) - mnf2 * 100
                              ELSE mnf2 * 100 - mnf1 * (100 + tol)
                 half_penalty == IF base > 0
                                 THEN Min2(500, (500 * overshoot) \div base)
                                 ELSE 500
             IN  Max2(0, 500 - half_penalty)

\* lines 686-707: overlap of two ranges over their joint extent; -1 when the
\* feature is skipped
RangeSimilarity(r1, r2) ==
    IF r1 = << >> \/ r2 = << >> THEN -1
    ELSE LET overlap == Max2(0, Min2(r1[2], r2[2]) - Max2(r1[1], r2[1]))
             total_range == Max2(r1[2], r2[2]) - Min2(r1[1], r2[1])
         IN  IF total_range > 0 THEN (overlap * 1000) \div total_range ELSE -1

\* lines 630-713; the weights 0.30 / 0.20 / 0.20 / 0.15 / 0.15 are in hundredths
calculate_signal_similarity(fp1, fp2, mnf_tolerance) ==
    LET signals1 == fp1.signals_active
        signals2 == fp2.signals_active
        union    == signals1 \cup signals2
        signal_sim == IF union # {}
                      THEN (Cardinality(signals1 \cap signals2) * 1000)
                               \div Cardinality(union)
                      ELSE -1
        common_signals == DOMAIN fp1.signal_scores \cap DOMAIN fp2.signal_scores
        score_diffs == [sg \in common_signals |->
                           Abs(fp1.signal_scores[sg] - fp2.signal_scores[sg])]
        score_sim == IF common_signals # {}
                     THEN Max2(0, 1000 - (10 * SumOver(score_diffs, common_signals))
                                             \div Cardinality(common_signals))
                     ELSE -1
        mnf_sim == calculate_mnf_similarity_adaptive(fp1, fp2, mnf_tolerance)
        vol_sim == RangeSimilarity(fp1.volume_range, fp2.volume_range)
        dur_sim == RangeSimilarity(fp1.duration_range, fp2.duration_range)
        parts == << <<signal_sim, 30>>, <<score_sim, 20>>, <<mnf_sim, 20>>,
                    <<vol_sim, 15>>, <<dur_sim, 15>> >>
        used  == { j \in 1..5 : parts[j][1] # -1 }
        score == SumOver([j \in used |-> parts[j][1] * parts[j][2]], used)
        weights_used == SumOver([j \in used |-> parts[j][2]], used)
    IN  IF weights_used > 0 THEN score \div weights_used ELSE 0

\* incidents as the dashboard hands them over
MkIncident(sub, mnf, vol, dur) ==
    [subscores |-> sub, mnf_Lph |-> mnf, volume_kL |-> vol, duration_hours |-> dur]
SubscoreDicts ==
    { [MNF |-> a, CUSUM |-> b] : a \in {0, 50, 100}, b \in {0, 100} }
Incidents ==
    { MkIncident(sub, mnf, vol, dur) :
        sub \in SubscoreDicts, mnf \in {0, 300, 330, 1000},
        vol \in {0, 10, 12}, dur \in {0, 4} }
Tolerances == {0, 10, 60}

InitSimilarity ==
    /\ IdleDetector
    /\ NoGateCall
    /\ NoPipeline
    /\ NoConfigCheck
    /\ NoBaselineCall
    /\ NoCusumCall
    /\ \E i1 \in Incidents, i2 \in Incidents, tol \in Tolerances :
           fp_args = [fp1 |-> create_signal_fingerprint(i1),
                      fp2 |-> create_signal_fingerprint(i2),
                      mnf_tolerance |-> tol]
    /\ fp_result = -1
    /\ NoSeasonCall
    /\ NoPatternStore

CallSignalSimilarity ==
    /\ fp_result = -1
    /\ fp_result' = calculate_signal_similarity(fp_args.fp1, fp_args.fp2,
                                                fp_args.mnf_tolerance)
    /\ UNCHANGED <<site_vars, gate_vars, pipeline_vars, config_vars, baseline_vars,
                   cusum_vars,
                   fp_args, season_vars, store_vars>>

NextSimilarity == CallSignalSimilarity

SpecSimilarity == InitSimilarity /\ [][NextSimilarity]_vars

(***************************************************************************)
(* false_alarm_patterns.py: the school calendar and the seasonal factor.   *)
(* A date is its month and day (month 0 stands for NaT); factors and       *)
(* scores are in thousandths.                                              *)
(***************************************************************************)
SEASON_MATCH_BOOST == 1200
SEASON_MISMATCH_PENALTY == 800
SEASON_WILDCARD_BOOST == 1150

\* lines 82-95, in the order of the dict
get_nsw_school_calendar ==
    << [name |-> "term_1", start |-> <<2, 1>>,   end |-> <<4, 12>>],
       [name |-> "term_2", start |-> <<4, 28>>,  end |-> <<7, 5>>],
       [name |-> "term_3", start |-> <<7, 21>>,  end |-> <<9, 27>>],
       [name |-> "term_4", start |-> <<10, 14>>, end |-> <<12, 18>>],
       [name |-> "summer", start |-> <<12, 19>>, end |-> <<1, 31>>] >>

\* lines 261-275: the test of one calendar entry
InSeason(month, day, dates) ==
    LET start_m == dates.start[1]
        start_d == dates.start[2]
        end_m   == dates.end[1]
        end_d   == dates.end[2]
    IN  IF start_m > end_m
        THEN \/ (month = start_m /\ day >= start_d)
             \/ (month = end_m /\ day <= end_d)
             \/ month > start_m
             \/ month < end_m
        ELSE /\ (month > start_m \/ (month = start_m /\ day >= start_d))
             /\ (month < end_m \/ (month = end_m /\ day <= end_d))

\* lines 246-286
detect_school_season(date_obj) ==
    IF date_obj.month = 0 THEN "unknown"
    ELSE LET calendar == get_nsw_school_calendar
             hits == { j \in 1..Len(calendar) :
                         InSeason(date_obj.month, date_obj.day, calendar[j]) }
         IN  IF hits # {} THEN calendar[SetMin(hits)].name
             ELSE IF date_obj.month = 4 /\ 13 <= date_obj.day /\ date_obj.day <= 27
                  THEN "autumn_break"
             ELSE IF date_obj.month = 7 /\ 6 <= date_obj.day /\ date_obj.day <= 20
                  THEN "winter_break"
             ELSE IF \/ (date_obj.month = 9 /\ date_obj.day >= 28)
                     \/ (date_obj.month = 10 /\ date_obj.day <= 13)
                  THEN "spring_break"
             ELSE "term_1"

\* lines 289-292
is_school_holiday(date_obj) ==
    detect_school_season(date_obj)
        \in {"summer", "winter_break", "autumn_break", "spring_break"}

\* lines 295-298
is_school_term(date_obj) ==
    detect_school_season(date_obj) \in {"term_1", "term_2", "term_3", "term_4"}

\* the factor cut off at 1.0
SeasonalSimilarityCapped(incident_date, season_tags) ==
    IF season_tags = {} THEN 1000
    ELSE IF detect_school_season(incident_date) \in season_tags THEN 1000
    ELSE IF "any_term" \in season_tags /\ is_school_term(incident_date) THEN 1000
    ELSE IF "any_holiday" \in season_tags /\ is_school_holiday(incident_date)
         THEN 1000
    ELSE SEASON_MISMATCH_PENALTY

\* lines 310-353; season_tags is the pattern's parsed tag list
calculate_seasonal_similarity(incident_date, season_tags) ==
    IF season_tags = {} THEN 1000
    ELSE IF detect_school_season(incident_date) \in season_tags
         THEN SEASON_MATCH_BOOST
    ELSE IF "any_term" \in season_tags /\ is_school_term(incident_date)
         THEN SEASON_WILDCARD_BOOST
    ELSE IF "any_holiday" \in season_tags /\ is_school_holiday(incident_date)
         THEN SEASON_WILDCARD_BOOST
    ELSE SEASON_MISMATCH_PENALTY

\* lines 356-376
apply_seasonal_confidence_boost(match_score, incident_date, season_tags) ==
    LET boost_factor == calculate_seasonal_similarity(incident_date, season_tags)
        adjusted_score == (match_score * boost_factor) \div 1000
    IN  Max2(0, Min2(1000, adjusted_score))

DaysIn(month) ==
    IF month = 2 THEN 29 ELSE IF month \in {4, 6, 9, 11} THEN 30 ELSE 31
Dates ==
    { [month |-> 0, day |-> 0] }
        \cup { [month |-> mo, day |-> dy] : mo \in 1..12, dy \in 1..31 }
SeasonTagLists ==
    { {}, {"summer"}, {"term_1"}, {"winter_break"}, {"any_term"}, {"any_holiday"},
      {"term_4", "any_holiday"} }
MatchScores == {0, 350, 700, 900, 1000}

InitSeason ==
    /\ IdleDetector
    /\ NoGateCall
    /\ NoPipeline
    /\ NoConfigCheck
    /\ NoBaselineCall
    /\ NoCusumCall
    /\ NoSimilarityCall
    /\ \E date \in Dates, tags \in SeasonTagLists, sc \in MatchScores :
           /\ date.day <= DaysIn(date.month)
           /\ ss_args = [match_score |-> sc, incident_date |-> date,
                         season_tags |-> tags]
    /\ ss_result = << >>
    /\ NoPatternStore

ApplySeasonalBoost ==
    /\ ss_result = << >>
    /\ ss_result' =
           [boost_factor |-> calculate_seasonal_similarity(ss_args.incident_date,
                                                           ss_args.season_tags),
            adjusted |-> apply_seasonal_confidence_boost(ss_args.match_score,
                                                         ss_args.incident_date,
                                                         ss_args.season_tags)]
    /\ UNCHANGED <<site_vars, gate_vars, pipeline_vars, config_vars, baseline_vars,
                   cusum_vars,
                   similarity_vars, ss_args, store_vars>>

NextSeason == ApplySeasonalBoost

SpecSeason == InitSeason /\ [][NextSeason]_vars

(***************************************************************************)
(* false_alarm_patterns.py: the pattern store.  PATTERNS_FILE is a CSV     *)
(* file that every operation reads whole (get_patterns_df) and writes      *)
(* whole (save_patterns_df).  Confidence is in thousandths, timestamps are *)
(* days counted from 1 (0 in last_matched_at stands for None), and a       *)
(* pattern_id, the md5 digest of site, category and fingerprint, is that   *)
(* triple.                                                                 *)
(***************************************************************************)
SIGNAL_MATCH_THRESHOLD == 700
STALENESS_THRESHOLD_DAYS == 120
CONFIDENCE_DECAY_PERIOD_DAYS == 30
CONFIDENCE_DECAY_RATE == 950
CONFIDENCE_FLOOR == 100
REACTIVATION_CONFIDENCE == 500

MaxOps == 4

\* lines 384-431: the frame an operation works on
get_patterns_df(file) ==
    IF file.kind = "csv" THEN [schema |-> TRUE, rows |-> file.rows]
    ELSE IF file.kind = "other_table" THEN [schema |-> FALSE, rows |-> file.rows]
    ELSE [schema |-> TRUE, rows |-> << >>]

\* lines 434-453
save_patterns_df(rows) == [kind |-> "csv", rows |-> rows]

\* lines 121-124
create_pattern_id(site_id, category, fingerprint) == <<site_id, category, fingerprint>>

NoDate == [month |-> 0, day |-> 0, dayofweek |-> 0]

\* lines 213-238
create_time_fingerprint(incident) ==
    [days_of_week |-> IF incident.start_day # NoDate
                      THEN {incident.start_day.dayofweek} ELSE {}]

Ids(rows) == { rows[j].pattern_id : j \in 1..Len(rows) }
FirstWith(rows, pattern_id) ==
    SetMin({ j \in 1..Len(rows) : rows[j].pattern_id = pattern_id })

\* lines 1617-1658
reactivate_stale_pattern(rows, t, pattern_id) ==
    IF pattern_id \notin Ids(rows) THEN rows
    ELSE [rows EXCEPT ![FirstWith(rows, pattern_id)] =
             [@ EXCEPT !.is_active = TRUE,
                       !.confidence = REACTIVATION_CONFIDENCE,
                       !.last_updated_at = t]]

\* record_pattern with an update in place that leaves auto_suppress as it was
RecordPatternKeepingFlag(rows, t, site_id, incident, category, auto_suppress) ==
    LET signal_fp == create_signal_fingerprint(incident)
        time_fp == create_time_fingerprint(incident)
        season_tags == IF incident.start_day # NoDate
                       THEN {detect_school_season(incident.start_day)} ELSE {}
        pattern_id == create_pattern_id(site_id, category, signal_fp)
        existing == { j \in 1..Len(rows) :
                        rows[j].site_id = site_id /\ rows[j].category = category }
        alike == { j \in existing :
                     /\ rows[j].is_active
                     /\ calculate_signal_similarity(
                            signal_fp, rows[j].signal_fingerprint, 0) > 800 }
        revivable == { j \in existing :
                         /\ ~rows[j].is_active
                         /\ calculate_signal_similarity(
                                signal_fp, rows[j].signal_fingerprint, 0) > 700 }
        new_pattern ==
            [ pattern_id |-> pattern_id, site_id |-> site_id, category |-> category,
              signal_fingerprint |-> signal_fp, time_fingerprint |-> time_fp,
              auto_suppress |-> auto_suppress, confidence |-> 600,
              times_matched |-> 0, times_confirmed_false |-> 1,
              times_was_real_leak |-> 0, created_at |-> t, last_matched_at |-> 0,
              last_updated_at |-> t, is_active |-> TRUE, season_tags |-> season_tags ]
    IN  IF alike # {}
        THEN LET row == rows[SetMin(alike)]
             IN  [ rows |-> [j \in 1..Len(rows) |->
                                IF rows[j].pattern_id = row.pattern_id
                                THEN [rows[j] EXCEPT
                                        !.times_confirmed_false = @ + 1,
                                        !.confidence = Min2(1000, row.confidence + 50),
                                        !.last_updated_at = t]
                                ELSE rows[j]],
                   action |-> "updated", pattern_id |-> row.pattern_id ]
        ELSE IF revivable # {}
        THEN LET row == rows[SetMin(revivable)]
             IN  [ rows |-> reactivate_stale_pattern(rows, t, row.pattern_id),
                   action |-> "reactivated", pattern_id |-> row.pattern_id ]
        ELSE [ rows |-> Append(rows, new_pattern),
               action |-> "created", pattern_id |-> pattern_id ]

\* lines 456-622
record_pattern(rows, t, site_id, incident, category, auto_suppress) ==
    LET signal_fp == create_signal_fingerprint(incident)
        time_fp == create_time_fingerprint(incident)
        season_tags == IF incident.start_day # NoDate
                       THEN {detect_school_season(incident.start_day)} ELSE {}
        pattern_id == create_pattern_id(site_id, category, signal_fp)
        existing == { j \in 1..Len(rows) :
                        rows[j].site_id = site_id /\ rows[j].category = category }
        alike == { j \in existing :
                     /\ rows[j].is_active
                     /\ calculate_signal_similarity(
                            signal_fp, rows[j].signal_fingerprint, 0) > 800 }
        revivable == { j \in existing :
                         /\ ~rows[j].is_active
                         /\ calculate_signal_similarity(
                                signal_fp, rows[j].signal_fingerprint, 0) > 700 }
        new_pattern ==
            [ pattern_id |-> pattern_id, site_id |-> site_id, category |-> category,
              signal_fingerprint |-> signal_fp, time_fingerprint |-> time_fp,
              auto_suppress |-> auto_suppress, confidence |-> 600,
              times_matched |-> 0, times_confirmed_false |-> 1,
              times_was_real_leak |-> 0, created_at |-> t, last_matched_at |-> 0,
              last_updated_at |-> t, is_active |-> TRUE, season_tags |-> season_tags ]
    IN  IF alike # {}
        THEN LET row == rows[SetMin(alike)]
             IN  [ rows |-> [j \in 1..Len(rows) |->
                                IF rows[j].pattern_id = row.pattern_id
                                THEN [rows[j] EXCEPT
                                        !.times_confirmed_false = @ + 1,
                                        !.confidence = Min2(1000, row.confidence + 50),
                                        !.last_updated_at = t,
                                        !.auto_suppress = auto_suppress]
                                ELSE rows[j]],
                   action |-> "updated", pattern_id |-> row.pattern_id ]
        ELSE IF revivable # {}
        THEN LET row == rows[SetMin(revivable)]
             IN  [ rows |-> reactivate_stale_pattern(rows, t, row.pattern_id),
                   action |-> "reactivated", pattern_id |-> row.pattern_id ]
        ELSE [ rows |-> Append(rows, new_pattern),
               action |-> "created", pattern_id |-> pattern_id ]

\* lines 900-914
confirm_pattern_was_false(rows, t, pattern_id) ==
    IF pattern_id \notin Ids(rows) THEN rows
    ELSE LET current_conf == rows[FirstWith(rows, pattern_id)].confidence
         IN  [j \in 1..Len(rows) |->
                 IF rows[j].pattern_id = pattern_id
                 THEN [rows[j] EXCEPT !.times_confirmed_false = @ + 1,
                                      !.confidence = Min2(1000, current_conf + 50),
                                      !.last_updated_at = t]
                 ELSE rows[j]]

\* line 935: was_real > 2 and was_real / (was_real + was_false) > 0.3
TooManyRealLeaks(was_real, was_false) ==
    was_real > 2 /\ 10 * was_real > 3 * (was_real + was_false)

\* lines 917-946 without the floor of line 925
ReportRealLeakNoFloor(rows, t, pattern_id) ==
    IF pattern_id \notin Ids(rows) THEN rows
    ELSE LET first == rows[FirstWith(rows, pattern_id)]
             off == TooManyRealLeaks(first.times_was_real_leak + 1,
                                     first.times_confirmed_false)
         IN  [j \in 1..Len(rows) |->
                 IF rows[j].pattern_id = pattern_id
                 THEN [rows[j] EXCEPT !.times_was_real_leak = @ + 1,
                                      !.confidence = first.confidence - 200,
                                      !.is_active = IF off THEN FALSE ELSE @,
                                      !.last_updated_at = t]
                 ELSE rows[j]]

\* lines 917-946
report_pattern_was_real_leak(rows, t, pattern_id) ==
    IF pattern_id \notin Ids(rows) THEN rows
    ELSE LET first == rows[FirstWith(rows, pattern_id)]
             current_conf == first.confidence
             was_real == first.times_was_real_leak + 1
             was_false == first.times_confirmed_false
             off == TooManyRealLeaks(was_real, was_false)
         IN  [j \in 1..Len(rows) |->
                 IF rows[j].pattern_id = pattern_id
                 THEN [rows[j] EXCEPT !.times_was_real_leak = @ + 1,
                                      !.confidence = Max2(100, current_conf - 200),
                                      !.is_active = IF off THEN FALSE ELSE @,
                                      !.last_updated_at = t]
                 ELSE rows[j]]

RECURSIVE Power(_, _)
Power(b, e) == IF e = 0 THEN 1 ELSE b * Power(b, e - 1)

\* CONFIDENCE_DECAY_RATE ** periods in millionths (periods is 1..3 below the
\* staleness threshold)
DecayFactor(periods) ==
    IF periods <= 2
    THEN Power(CONFIDENCE_DECAY_RATE, periods) * Power(1000, 2 - periods)
    ELSE Power(CONFIDENCE_DECAY_RATE, periods) \div Power(1000, periods - 2)

\* line 1588: abs(old_conf - new_conf) > 0.01 as binary floating point
\* computes it, both arguments in millionths of a thousandth.  A difference
\* of exactly 0.01 arises from a product only at 0.2 * 0.95, where the float
\* difference is 0.010000000000000009 and passes the test, and from the
\* floor only at 0.11 - 0.1, where it is 0.009999999999999995 and does not.
MeaningfulChange(old_conf, new_conf) ==
    \/ Abs(old_conf - new_conf) > 10 * 1000000
    \/ /\ Abs(old_conf - new_conf) = 10 * 1000000
       /\ new_conf > CONFIDENCE_FLOOR * 1000000

\* lines 1565-1603: what the cleanup does to one row; old_conf and new_conf
\* are in millionths of a thousandth
Aged(pattern, t) ==
    LET last_activity == Max2(pattern.last_matched_at,
                              Max2(pattern.last_updated_at, pattern.created_at))
        days_inactive == t - last_activity
        periods == days_inactive \div CONFIDENCE_DECAY_PERIOD_DAYS
        old_conf == pattern.confidence * 1000000
        new_conf == Max2(CONFIDENCE_FLOOR * 1000000,
                         pattern.confidence * DecayFactor(periods))
    IN  IF ~pattern.is_active THEN pattern
        ELSE IF days_inactive >= STALENESS_THRESHOLD_DAYS
        THEN [pattern EXCEPT !.is_active = FALSE, !.last_updated_at = t]
        ELSE IF /\ days_inactive >= CONFIDENCE_DECAY_PERIOD_DAYS
                /\ MeaningfulChange(old_conf, new_conf)
        THEN [pattern EXCEPT !.confidence = (new_conf + 500000) \div 1000000,
                             !.last_updated_at = t]
        ELSE pattern

\* lines 1528-1614
cleanup_stale_patterns(rows, t) == [j \in 1..Len(rows) |-> Aged(rows[j], t)]

\* lines 888-897
update_pattern_match(rows, t, pattern_id) ==
    [j \in 1..Len(rows) |->
        IF rows[j].pattern_id = pattern_id
        THEN [rows[j] EXCEPT !.times_matched = @ + 1, !.last_matched_at = t]
        ELSE rows[j]]

\* lines 716-757; record_pattern stores no time window
calculate_time_similarity(incident, pattern) ==
    IF incident.start_day # NoDate /\ pattern.time_fingerprint.days_of_week # {}
    THEN IF incident.start_day.dayofweek \in pattern.time_fingerprint.days_of_week
         THEN 1000 ELSE 0
    ELSE 500

\* lines 830-858: the match record built from the scores of one pattern;
\* scores in ten-thousandths until they are rounded to three decimals
MatchRecord(pattern, j, combined_score, seasonal_boost) ==
    LET final_score == Max2(0, Min2(10000, (combined_score * seasonal_boost) \div 1000))
    IN  [ row |-> j, pattern_id |-> pattern.pattern_id,
          combined_score |-> combined_score,
          final_score |-> (final_score + 5) \div 10,
          auto_suppress |-> pattern.auto_suppress,
          is_strong_match |-> final_score >= SIGNAL_MATCH_THRESHOLD * 10 ]

\* lines 792-849: signal similarity 0.7, time similarity 0.3, then the
\* seasonal factor
MatchOf(incident, pattern, j) ==
    MatchRecord(pattern, j,
                7 * calculate_signal_similarity(
                        create_signal_fingerprint(incident),
                        pattern.signal_fingerprint, DEFAULT_MNF_TOLERANCE)
                    + 3 * calculate_time_similarity(incident, pattern),
                IF incident.start_day # NoDate
                THEN calculate_seasonal_similarity(incident.start_day,
                                                   pattern.season_tags)
                ELSE 1000)

\* line 860: a stable sort by final_score, highest first
SortedByFinalScore(ms) ==
    LET Before(a, b) == \/ ms[a].final_score > ms[b].final_score
                        \/ (ms[a].final_score = ms[b].final_score /\ a < b)
        Rank(a) == 1 + Cardinality({ b \in 1..Len(ms) : Before(b, a) })
    IN  [r \in 1..Len(ms) |-> ms[CHOOSE a \in 1..Len(ms) : Rank(a) = r]]

\* lines 776-790 and 836-841: the rows of the site (or of "ALL") that are
\* active and whose combined score reaches half the threshold
KeptMatches(rows, site_id, scored) ==
    Pick(scored, { j \in 1..Len(rows) :
                     /\ rows[j].site_id \in {site_id, "ALL"}
                     /\ rows[j].is_active
                     /\ scored[j].combined_score
                            >= (SIGNAL_MATCH_THRESHOLD * 10) \div 2 })

\* lines 760-863
match_incident_to_patterns(rows, incident, site_id) ==
    SortedByFinalScore(
        KeptMatches(rows, site_id,
                    [j \in 1..Len(rows) |-> MatchOf(incident, rows[j], j)]))

\* lines 878-885: the first strong match that may suppress
SuppressOn(rows, t, matches) ==
    LET hits == { r \in 1..Len(matches) :
                    matches[r].is_strong_match /\ matches[r].auto_suppress }
    IN  IF hits # {}
        THEN [ suppress |-> TRUE, match |-> matches[SetMin(hits)],
               rows |-> update_pattern_match(rows, t,
                                             matches[SetMin(hits)].pattern_id) ]
        ELSE [ suppress |-> FALSE, match |-> << >>, rows |-> rows ]

\* lines 866-885
check_should_suppress(rows, t, incident, site_id) ==
    SuppressOn(rows, t, match_incident_to_patterns(rows, incident, site_id))

(***************************************************************************)
(* One site's pattern store in use.                                        *)
(***************************************************************************)
StoreIncident(sub, mnf, vol, dur, start) ==
    [subscores |-> sub, mnf_Lph |-> mnf, volume_kL |-> vol, duration_hours |-> dur,
     start_day |-> start]
BothSignals == [MNF |-> 100, CUSUM |-> 100]
NoSignals == [MNF |-> 0, CUSUM |-> 0]
PoolFill == StoreIncident(BothSignals, 300, 10, 4, NoDate)
PoolFillAgain == StoreIncident(BothSignals, 330, 12, 4, NoDate)
Unmetered == StoreIncident(NoSignals, 0, 0, 0, NoDate)
SummerFill ==
    StoreIncident(BothSignals, 300, 10, 4, [month |-> 1, day |-> 15, dayofweek |-> 0])
\* a report that gives a volume and a duration and nothing else
HandFill == StoreIncident(NoSignals, 0, 10, 4, NoDate)
StoreIncidents == {PoolFill, PoolFillAgain, Unmetered, SummerFill, HandFill}
RecordInputs ==
    { <<PoolFill, "pool_fill", FALSE>>, <<PoolFillAgain, "irrigation", TRUE>>,
      <<PoolFillAgain, "pool_fill", TRUE>>, <<Unmetered, "pool_fill", FALSE>>,
      <<SummerFill, "pool_fill", TRUE>>, <<HandFill, "pool_fill", TRUE>> }

\* files that earlier sessions left behind
RECURSIVE ConfirmedTimes(_, _, _)
ConfirmedTimes(rows, pattern_id, k) ==
    IF k = 0 THEN rows
    ELSE confirm_pattern_was_false(ConfirmedTimes(rows, pattern_id, k - 1), 1,
                                   pattern_id)
FreshStore == record_pattern(<< >>, 1, "S1", PoolFill, "pool_fill", TRUE).rows
DoubtedStore ==
    report_pattern_was_real_leak(
        report_pattern_was_real_leak(FreshStore, 1, FreshStore[1].pattern_id),
        1, FreshStore[1].pattern_id)
TrustedStore == ConfirmedTimes(FreshStore, FreshStore[1].pattern_id, 7)
StoredFiles ==
    { [kind |-> "absent", rows |-> << >>],
      save_patterns_df(DoubtedStore), save_patterns_df(TrustedStore) }

InitPatterns ==
    /\ IdleDetector
    /\ NoGateCall
    /\ NoPipeline
    /\ NoConfigCheck
    /\ NoBaselineCall
    /\ NoCusumCall
    /\ NoSimilarityCall
    /\ NoSeasonCall
    /\ NoWriters
    /\ patterns_file \in StoredFiles
    /\ now = 1
    /\ ops = 0
    /\ pt_call = [op |-> "none"]
    /\ deactivated_by_report = {}

other_vars == <<site_vars, gate_vars, pipeline_vars, config_vars, baseline_vars,
                   cusum_vars,
                similarity_vars, season_vars, writer_vars>>

RecordPattern ==
    /\ ops < MaxOps
    /\ \E a \in RecordInputs :
         \E out \in { record_pattern(get_patterns_df(patterns_file).rows, now,
                                      "S1", a[1], a[2], a[3]) } :
            /\ patterns_file' = save_patterns_df(out.rows)
            /\ pt_call' = [op |-> "record_pattern", incident |-> a[1],
                           category |-> a[2], auto_suppress |-> a[3],
                           action |-> out.action, pattern_id |-> out.pattern_id]
    /\ ops' = ops + 1
    /\ UNCHANGED <<other_vars, now, deactivated_by_report>>

ConfirmFalse ==
    /\ ops < MaxOps
    /\ \E id \in Ids(get_patterns_df(patterns_file).rows) :
            /\ patterns_file' = save_patterns_df(
                   confirm_pattern_was_false(get_patterns_df(patterns_file).rows,
                                             now, id))
            /\ pt_call' = [op |-> "confirm_pattern_was_false", pattern_id |-> id]
    /\ ops' = ops + 1
    /\ UNCHANGED <<other_vars, now, deactivated_by_report>>

ReportRealLeak ==
    /\ ops < MaxOps
    /\ \E id \in Ids(get_patterns_df(patterns_file).rows) :
         \E rows \in { report_pattern_was_real_leak(
                           get_patterns_df(patterns_file).rows, now, id) } :
            /\ patterns_file' = save_patterns_df(rows)
            /\ pt_call' = [op |-> "report_pattern_was_real_leak", pattern_id |-> id]
            /\ deactivated_by_report' =
                   IF \E j \in 1..Len(rows) :
                         /\ rows[j].pattern_id = id
                         /\ ~rows[j].is_active
                         /\ get_patterns_df(patterns_file).rows[j].is_active
                   THEN deactivated_by_report \cup {id}
                   ELSE deactivated_by_report
    /\ ops' = ops + 1
    /\ UNCHANGED <<other_vars, now>>

\* save_patterns_df is called only when a row changed (line 1606)
CleanupStale ==
    /\ ops < MaxOps
    /\ get_patterns_df(patterns_file).rows # << >>
    /\ \E rows \in { cleanup_stale_patterns(get_patterns_df(patterns_file).rows,
                                              now) } :
            patterns_file' = IF rows # get_patterns_df(patterns_file).rows
                             THEN save_patterns_df(rows) ELSE patterns_file
    /\ pt_call' = [op |-> "cleanup_stale_patterns"]
    /\ ops' = ops + 1
    /\ UNCHANGED <<other_vars, now, deactivated_by_report>>

\* update_pattern_match saves only inside check_should_suppress's hit branch
CheckShouldSuppress ==
    /\ ops < MaxOps
    /\ \E incident \in StoreIncidents :
         \E out \in { check_should_suppress(get_patterns_df(patterns_file).rows,
                                             now, incident, "S1") } :
            /\ patterns_file' = IF out.suppress THEN save_patterns_df(out.rows)
                                                ELSE patterns_file
            /\ pt_call' = [op |-> "check_should_suppress", incident |-> incident,
                           suppress |-> out.suppress, match |-> out.match]
    /\ ops' = ops + 1
    /\ UNCHANGED <<other_vars, now, deactivated_by_report>>

\* time passes between calls
DaysPass ==
    /\ ops < MaxOps
    /\ \E days \in {CONFIDENCE_DECAY_PERIOD_DAYS, STALENESS_THRESHOLD_DAYS} :
            now' = now + days
    /\ pt_call' = [op |-> "none"]
    /\ ops' = ops + 1
    /\ UNCHANGED <<other_vars, patterns_file, deactivated_by_report>>

NextPatterns ==
    \/ RecordPattern
    \/ ConfirmFalse
    \/ ReportRealLeak
    \/ CleanupStale
    \/ CheckShouldSuppress
    \/ DaysPass

SpecPatterns == InitPatterns /\ [][NextPatterns]_vars

(***************************************************************************)
(* Concurrent writers of PATTERNS_FILE: dashboard callbacks and detector   *)
(* runs that call update_pattern_match or confirm_pattern_was_false for    *)
(* the same pattern.  Each call is get_patterns_df, a change of the local  *)
(* frame, and save_patterns_df; the module holds no lock and no file is    *)
(* locked, so the two halves of different calls interleave freely.          *)
(***************************************************************************)
MaxWriters == 2
Writers == 1..MaxWriters
WriterOps == {"update_pattern_match", "confirm_pattern_was_false"}

idle_vars == <<site_vars, gate_vars, pipeline_vars, config_vars, baseline_vars,
                   cusum_vars,
               similarity_vars, season_vars>>

InitWriters ==
    /\ IdleDetector
    /\ NoGateCall
    /\ NoPipeline
    /\ NoConfigCheck
    /\ NoBaselineCall
    /\ NoCusumCall
    /\ NoSimilarityCall
    /\ NoSeasonCall
    /\ \E rows \in {FreshStore, DoubtedStore, TrustedStore} :
           /\ patterns_file = save_patterns_df(rows)
           /\ pt_call = [op |-> "writers", before |-> rows]
    /\ now = 1
    /\ ops = 0
    /\ deactivated_by_report = {}
    /\ w_op \in [Writers -> WriterOps]
    /\ w_pc = [w \in Writers |-> "start"]
    /\ w_df = [w \in Writers |-> << >>]

\* lines 890, 902: df = get_patterns_df()
WriterLoads(w) ==
    /\ w_pc[w] = "start"
    /\ w_df' = [w_df EXCEPT ![w] = get_patterns_df(patterns_file).rows]
    /\ w_pc' = [w_pc EXCEPT ![w] = "loaded"]
    /\ UNCHANGED <<idle_vars, patterns_file, now, ops, pt_call,
                   deactivated_by_report, w_op>>

\* lines 892-897, 904-914: the change of the local frame and save_patterns_df
WriterSaves(w) ==
    /\ w_pc[w] = "loaded"
    /\ patterns_file' = save_patterns_df(
           IF w_op[w] = "update_pattern_match"
           THEN update_pattern_match(w_df[w], now, w_df[w][1].pattern_id)
           ELSE confirm_pattern_was_false(w_df[w], now, w_df[w][1].pattern_id))
    /\ w_pc' = [w_pc EXCEPT ![w] = "done"]
    /\ UNCHANGED <<idle_vars, now, ops, pt_call, deactivated_by_report, w_op, w_df>>

NextWriters == \E w \in Writers : WriterLoads(w) \/ WriterSaves(w)

SpecWriters == InitWriters /\ [][NextWriters]_vars

(***************************************************************************)
(* A pattern file that earlier runs, other programs or a crash left in any *)
(* condition: absent, a valid CSV, unreadable as CSV ("unparsable"), a CSV *)
(* with a cell that is not JSON ("bad_json"), or text that read_csv        *)
(* accepts but whose header is not the pattern schema ("other_table").     *)
(***************************************************************************)
TwoPatternStore ==
    record_pattern(record_pattern(<< >>, 1, "S1", PoolFill, "pool_fill", FALSE).rows,
                   1, "S1", PoolFillAgain, "irrigation", TRUE).rows
FoundFiles ==
    { [kind |-> "absent", rows |-> << >>],
      [kind |-> "unparsable", rows |-> FreshStore],
      [kind |-> "bad_json", rows |-> FreshStore],
      [kind |-> "other_table", rows |-> << [line |-> "text"] >>] }
        \cup { save_patterns_df(rows) :
                  rows \in {FreshStore, DoubtedStore, TrustedStore, TwoPatternStore} }

\* lines 776-790: the frame is returned as loaded; df["site_id"] and
\* df["is_active"] raise KeyError on a frame without these columns
MatchLoaded(file, incident, site_id) ==
    LET df == get_patterns_df(file)
    IN  IF df.rows = << >> THEN [raised |-> FALSE, matches |-> << >>]
        ELSE IF ~df.schema THEN [raised |-> TRUE, matches |-> << >>]
        ELSE [raised |-> FALSE,
              matches |-> match_incident_to_patterns(df.rows, incident, site_id)]

InitLoad ==
    /\ IdleDetector
    /\ NoGateCall
    /\ NoPipeline
    /\ NoConfigCheck
    /\ NoBaselineCall
    /\ NoCusumCall
    /\ NoSimilarityCall
    /\ NoSeasonCall
    /\ NoWriters
    /\ patterns_file \in FoundFiles
    /\ now = 1
    /\ ops = 0
    /\ pt_call = [op |-> "none"]
    /\ deactivated_by_report = {}

\* match_incident_to_patterns on the file as found
LoadAndMatch ==
    /\ ops < MaxOps
    /\ \E incident \in StoreIncidents :
         \E out \in { MatchLoaded(patterns_file, incident, "S1") } :
            pt_call' = [op |-> "match_incident_to_patterns", incident |-> incident,
                        raised |-> out.raised, matches |-> out.matches]
    /\ ops' = ops + 1
    /\ UNCHANGED <<other_vars, patterns_file, now, deactivated_by_report>>

\* check_should_suppress on the file as found; an exception of
\* match_incident_to_patterns propagates (line 876)
LoadAndCheck ==
    /\ ops < MaxOps
    /\ \E incident \in StoreIncidents :
         \E found \in { MatchLoaded(patterns_file, incident, "S1") } :
            IF found.raised
            THEN /\ pt_call' = [op |-> "check_should_suppress",
                                incident |-> incident, raised |-> TRUE,
                                suppress |-> FALSE, match |-> << >>]
                 /\ UNCHANGED patterns_file
            ELSE \E out \in { check_should_suppress(
                                  get_patterns_df(patterns_file).rows, now,
                                  incident, "S1") } :
                 /\ pt_call' = [op |-> "check_should_suppress",
                                incident |-> incident, raised |-> FALSE,
                                suppress |-> out.suppress, match |-> out.match]
                 /\ patterns_file' = IF out.suppress THEN save_patterns_df(out.rows)
                                                     ELSE patterns_file
    /\ ops' = ops + 1
    /\ UNCHANGED <<other_vars, now, deactivated_by_report>>

NextLoad == LoadAndMatch \/ LoadAndCheck

SpecLoad == InitLoad /\ [][NextLoad]_vars

(***************************************************************************)
(* Properties of the state machine                                         *)
(***************************************************************************)
Confirmed(inc) == inc.status \in {"INVESTIGATE", "CALL"}
FirstDay == cfg.baseline_window_days + 1
Processed(d) == d \in DOMAIN daily_outputs /\ daily_outputs[d].kind = "full"

\* C1: within state_machine a cached signal snapshot is never recomputed or
\* overwritten: the map only gains keys, every entry keeps its value, and
\* each processed day is reported with the deltaNF of its stored snapshot.
C1_SnapshotsFrozen ==
    /\ [](\A d \in DOMAIN daily_outputs :
             Processed(d) =>
                /\ d_key(d) \in DOMAIN signal_components_by_date
                /\ daily_outputs[d].deltaNF = signal_components_by_date[d_key(d)].deltaNF)
    /\ [][run' = run =>
             \A k \in DOMAIN signal_components_by_date :
                /\ k \in DOMAIN signal_components_by_date'
                /\ signal_components_by_date'[k] = signal_components_by_date[k]]_vars

\* C1 witness: in a rerun a day was processed from its restored snapshot
\* although self.df now gives another night-flow excess for it.
C1_Witness ==
    /\ run = 2
    /\ \E d \in DOMAIN daily_outputs :
          /\ Processed(d)
          /\ d_key(d) \in DOMAIN prev_signal_components
          /\ d \in DOMAIN data
          /\ data[d].deltaNF # signal_components_by_date[d_key(d)].deltaNF

\* C2: once the frozen confidences are restored on the new detector, a rerun
\* over the extended history keeps every stored value and reports it for
\* its day.
C2_ConfidenceFrozen ==
    \A k \in DOMAIN prev_confidence_by_date :
        /\ k \in DOMAIN confidence_by_date
        /\ confidence_by_date[k] = prev_confidence_by_date[k]
        /\ Processed(k[2]) => daily_outputs[k[2]].confidence = prev_confidence_by_date[k]

\* C2 witness: the rerun has finished over a history with a new last day,
\* and reported for an earlier day the restored confidence where a fresh
\* computation (no incident active, persistence 1) would give another value.
C2_Witness ==
    /\ run = 2
    /\ pc = "done"
    /\ Processed(n)
    /\ d_key(n) \notin DOMAIN prev_signal_components
    /\ \E k \in DOMAIN prev_confidence_by_date :
          /\ Processed(k[2])
          /\ Processed(k[2] - 1)
          /\ daily_outputs[k[2] - 1].status = "OK"
          /\ daily_outputs[k[2]].confidence = prev_confidence_by_date[k]
          /\ prev_confidence_by_date[k] #
                get_confidence(signal_components_by_date[k].sub_scores, 1,
                               signal_components_by_date[k].deltaNF,
                               signal_components_by_date[k].NF_MAD)

\* C3: whenever process_site is handed the caches of the site's last
\* detector, the new detector holds every entry of both before
\* state_machine runs.
C3_CachesCarried ==
    [][(pc = "done" /\ pc' = "idle") =>
          /\ \A k \in DOMAIN signal_components_by_date :
                /\ k \in DOMAIN signal_components_by_date'
                /\ signal_components_by_date'[k] = signal_components_by_date[k]
          /\ \A k \in DOMAIN confidence_by_date :
                /\ k \in DOMAIN confidence_by_date'
                /\ confidence_by_date'[k] = confidence_by_date[k]]_vars

\* C4: a second call of state_machine on the same snapshots and history
\* leaves the incident list as the first call returned it.
C4_SecondCallSameIncidents ==
    Len(returned) >= 2 => returned[2] = returned[1]

\* C5 as stated: a confirmed active incident gets no close_reason and stays
\* the active incident on every later day.
C5_ConfirmedStaysActive ==
    [][\A j \in 1..Len(incidents) :
          (pc = "loop" /\ active = j /\ Confirmed(incidents[j])) =>
              /\ incidents'[j].close_reason = ""
              /\ active' = j]_vars

\* C5 amended: a confirmed incident never gets a close_reason (whoever
\* carries one has status WATCH), and it stays the active incident except
\* on a triggered day more than merge_gap_days after its last_day, when a
\* new incident is opened in its place.
C5_ConfirmedNeverClosed ==
    /\ [](\A j \in 1..Len(incidents) :
             incidents[j].close_reason # "" => incidents[j].status = "WATCH")
    /\ [][\A j \in 1..Len(incidents) :
             (pc = "loop" /\ Confirmed(incidents[j])) =>
                 /\ incidents'[j].close_reason = ""
                 /\ active = j =>
                      \/ active' = j
                      \/ /\ i - incidents[j].last_day > cfg.merge_gap_days
                         /\ Len(incidents') = Len(incidents) + 1
                         /\ incidents'[Len(incidents')].start_day = i
                         /\ active' \in {0, Len(incidents')}]_vars

\* C5 witness: a confirmed incident is still active after a day without
\* trigger.
C5_Witness ==
    /\ pc = "loop"
    /\ active # 0
    /\ Confirmed(incidents[active])
    /\ incidents[active].close_reason = ""
    /\ incidents[active].last_day < i - 1
    /\ Processed(i - 1)

\* C6: an incident whose status is CALL keeps status CALL on every later
\* processed day.
C6_CallNeverDowngraded ==
    [][\A j \in 1..Len(incidents) :
          incidents[j].status = "CALL" => incidents'[j].status = "CALL"]_vars

TriggeredOn(d) ==
    /\ d_key(d) \in DOMAIN confidence_by_date
    /\ Trigger(signal_components_by_date[d_key(d)])
    /\ ~ResolvedToday(signal_components_by_date[d_key(d)])
NotTriggeredOn(d) ==
    /\ d_key(d) \in DOMAIN confidence_by_date
    /\ ~Trigger(signal_components_by_date[d_key(d)])

\* C7: with merge_gap_days >= 2, triggers on the first, second and fourth
\* processed day and none on the third end in one incident that spans the
\* four days with days_persisted = 4.
C7_MergeAcrossGap ==
    ( /\ pc = "done"
      /\ n = FirstDay + 3
      /\ cfg.merge_gap_days >= 2
      /\ TriggeredOn(FirstDay) /\ TriggeredOn(FirstDay + 1)
      /\ NotTriggeredOn(FirstDay + 2) /\ TriggeredOn(FirstDay + 3) )
    => /\ Len(incidents) = 1
       /\ incidents[1].start_day = FirstDay
       /\ incidents[1].last_day = FirstDay + 3
       /\ incidents[1].days_persisted = 4

\* C8: max_deltaNF, volume_lost_kL, days_persisted and last_day of every
\* incident never decrease from one processed day to the next.
C8_Monotonic ==
    [][\A j \in 1..Len(incidents) :
          /\ j <= Len(incidents')
          /\ incidents'[j].max_deltaNF >= incidents[j].max_deltaNF
          /\ incidents'[j].volume_lost_kL >= incidents[j].volume_lost_kL
          /\ incidents'[j].days_persisted >= incidents[j].days_persisted
          /\ incidents'[j].last_day >= incidents[j].last_day]_vars

\* C8 witness: an incident was extended over a bridged gap by a day whose
\* night-flow excess is below the incident's maximum.
C8_Witness ==
    \E j \in 1..Len(incidents) :
        /\ incidents[j].days_persisted > Cardinality(DOMAIN incidents[j].signal_components_by_date)
        /\ incidents[j].signal_components_by_date[d_key(incidents[j].last_day)].deltaNF
              < incidents[j].max_deltaNF

\* the gate of the deltaNF bucket, by the bucket's name
BucketOf(delta_nf) ==
    IF delta_nf < 100 THEN "<100"
    ELSE IF delta_nf < 200 THEN "100-200"
    ELSE IF delta_nf < 1000 THEN "200-1000" ELSE ">=1000"
FastPath(a) == a.sig_agree >= 3 /\ a.confidence >= 70000

\* C9: get_persistence_needed never returns less than 3; it returns
\* max(3, fast_min) of the deltaNF bucket when at least 3 signals agree and
\* confidence >= 70, and max(3, default_max) of that bucket otherwise.
C9_PersistenceFloor ==
    pn_result # 0 =>
        LET gate == pn_args.persistence_gates[BucketOf(pn_args.delta_nf)]
        IN  /\ pn_result >= 3
            /\ FastPath(pn_args)  => pn_result = Max2(3, gate.fast_min)
            /\ ~FastPath(pn_args) => pn_result = Max2(3, gate.default_max)

\* C9 witness: the call took the fast gate of a bucket whose fast_min is
\* below 3 and whose default_max is above it, and returned the floor.
C9_Witness ==
    /\ pn_result = 3
    /\ FastPath(pn_args)
    /\ pn_args.persistence_gates[BucketOf(pn_args.delta_nf)].fast_min < 3
    /\ pn_args.persistence_gates[BucketOf(pn_args.delta_nf)].default_max > 3

\* C10: beside a site that can be processed, a site that fails never makes
\* run_efficient_pipeline raise, neither while slicing nor in a worker; once
\* the results are collected, the
\* detector of every site that did not fail is among site_detectors and its
\* confirmed incidents are among all_confirmed_leaks.
C10_SiteIsolation ==
    /\ (\E j \in Sites : school_dfs[j].kind = "frame") =>
          pl_error \notin {"slice", "worker"}
    /\ pl_pc \in {"collected", "finished"} =>
          \A j \in Sites :
              school_dfs[j].kind = "frame" =>
                  /\ j \in site_detectors
                  /\ school_dfs[j].confirmed > 0 =>
                        \E x \in 1..Len(all_confirmed_leaks) : all_confirmed_leaks[x] = j

(***************************************************************************)
(* Properties of validate_config                                           *)
(***************************************************************************)
NamedKeys ==
    { "night_start", "night_end", "after_hours_start", "after_hours_end",
      "baseline_window_days", "abs_floor_lph", "sustained_after_hours_delta_kl",
      "spike_multiplier", "score_weights", "persistence_gates",
      "severity_bands_lph", "cusum_k", "cusum_h", "merge_gap_days" }

FiveWeightsPositive(sw) ==
    /\ DOMAIN sw = Signals
    /\ \A k \in DOMAIN sw : sw[k] > 0

\* C11: validate_config raises exactly when one of the named keys (with
\* merge_gap_days among them) is absent, the floor is not positive, the night
\* window is inverted, or score_weights is not the five signal names with
\* positive values; every other cfg passes.
C11_ValidationFatal ==
    vc_result # "" =>
        ( vc_result # "ok"
            <=> \/ ~(NamedKeys \subseteq vc_cfg.present)
                \/ vc_cfg.abs_floor_lph <= 0
                \/ vc_cfg.night_start >= vc_cfg.night_end
                \/ ~FiveWeightsPositive(vc_cfg.score_weights) )

(***************************************************************************)
(* Properties of the signal scorer's baseline                              *)
(***************************************************************************)
EmptyWindow == get_rolling_baseline(bl_args).sub = << >>

\* C12: when the trailing baseline window of day d holds no data,
\* signals_and_score returns deltaNF = 0 and a zero MNF sub-score, whatever
\* the night flow of d is.
C12_EmptyWindowScoresZero ==
    (bl_result.called /\ EmptyWindow)
        => (bl_result.deltaNF = 0 /\ bl_result.s_MNF = 0)

(***************************************************************************)
(* Properties of the pattern engine's similarity functions                 *)
(***************************************************************************)
FullyPopulated(fp) ==
    /\ fp.signals_active # {}
    /\ fp.mnf_value_Lph # 0
    /\ fp.volume_range # << >>
    /\ fp.duration_range # << >>

\* C13: calculate_signal_similarity returns a value in [0, 1] for every pair
\* of fingerprints, and exactly 1.0 when a fully populated fingerprint is
\* compared with itself.
C13_SimilarityBounded ==
    fp_result # -1 =>
        /\ 0 <= fp_result /\ fp_result <= 1000
        /\ (fp_args.fp1 = fp_args.fp2 /\ FullyPopulated(fp_args.fp1))
               => fp_result = 1000

C13_Witness ==
    /\ fp_result = 1000
    /\ fp_args.fp1 = fp_args.fp2
    /\ FullyPopulated(fp_args.fp1)

\* the claim as stated: the seasonal similarity itself lies in [0, 1]
C14_SeasonalInUnitRange ==
    ss_result # << >> =>
        (0 <= ss_result.boost_factor /\ ss_result.boost_factor <= 1000)

TermMonths == {2, 3, 5, 6, 8, 11}
InTermFor(date) == date.month \in TermMonths

\* C14: calculate_seasonal_similarity returns one of the factors 0.80, 1.0,
\* 1.15 and 1.20 -- 1.0 for a pattern without season tags, 1.20 when the
\* incident's season is one of the tags, never below 1.15 for an any_term
\* pattern and a date inside a term -- and the score adjusted by it is
\* clamped to [0, 1].
C14_SeasonalFactor ==
    ss_result # << >> =>
        /\ ss_result.boost_factor \in {800, 1000, 1150, 1200}
        /\ ss_args.season_tags = {} => ss_result.boost_factor = 1000
        /\ ( /\ "summer" \in ss_args.season_tags
             /\ ss_args.incident_date.month = 1 )
               => ss_result.boost_factor = 1200
        /\ ("any_term" \in ss_args.season_tags /\ InTermFor(ss_args.incident_date))
               => ss_result.boost_factor >= 1150
        /\ 0 <= ss_result.adjusted /\ ss_result.adjusted <= 1000

C14_Witness ==
    /\ ss_result # << >>
    /\ ss_result.boost_factor = 1200
    /\ ss_args.match_score = 900
    /\ ss_result.adjusted = 1000

(***************************************************************************)
(* A store in which the same fill was reported on day 1 and again on day   *)
(* TwinDay: the two reports have one pattern_id and two rows.              *)
(***************************************************************************)
TwinDay == 91
TwinStore ==
    record_pattern(record_pattern(<< >>, 1, "S1", HandFill, "pool_fill", TRUE).rows,
                   TwinDay, "S1", HandFill, "pool_fill", TRUE).rows

InitTwins ==
    /\ IdleDetector
    /\ NoGateCall
    /\ NoPipeline
    /\ NoConfigCheck
    /\ NoBaselineCall
    /\ NoCusumCall
    /\ NoSimilarityCall
    /\ NoSeasonCall
    /\ NoWriters
    /\ patterns_file = save_patterns_df(TwinStore)
    /\ now = TwinDay
    /\ ops = 0
    /\ pt_call = [op |-> "none"]
    /\ deactivated_by_report = {}

SpecTwins == InitTwins /\ [][NextPatterns]_vars

(***************************************************************************)
(* Properties of the pattern store                                         *)
(***************************************************************************)
StoredRows == get_patterns_df(patterns_file).rows

\* C15: check_should_suppress answers suppress = True exactly when a best
\* strong match (a strong match of the highest final_score) has auto_suppress
\* set; when it suppresses, the rows of that pattern get times_matched + 1 and
\* last_matched_at = now, and when it does not, the file is left as it was.
C15_SuppressIffBestStrong ==
    [][ (pt_call'.op = "check_should_suppress" /\ ops' = ops + 1) =>
          LET matches == match_incident_to_patterns(StoredRows, pt_call'.incident, "S1")
              strong == { r \in 1..Len(matches) : matches[r].is_strong_match }
              best == { r \in strong : \A q \in strong :
                          matches[q].final_score <= matches[r].final_score }
              after == get_patterns_df(patterns_file').rows
          IN  /\ pt_call'.suppress
                    <=> (\E r \in best : matches[r].auto_suppress)
              /\ pt_call'.suppress =>
                    \E r \in best :
                        /\ matches[r].auto_suppress
                        /\ Len(after) = Len(StoredRows)
                        /\ \A j \in 1..Len(after) :
                              after[j] =
                                IF StoredRows[j].pattern_id = matches[r].pattern_id
                                THEN [StoredRows[j] EXCEPT
                                        !.times_matched = @ + 1,
                                        !.last_matched_at = now]
                                ELSE StoredRows[j]
              /\ ~pt_call'.suppress => patterns_file' = patterns_file ]_vars

\* C16: whatever pattern operations have run, every stored pattern's
\* confidence lies in [0.1, 1.0].
C16_ConfidenceInRange ==
    \A j \in 1..Len(StoredRows) :
        /\ CONFIDENCE_FLOOR <= StoredRows[j].confidence
        /\ StoredRows[j].confidence <= 1000

C16_Witness ==
    /\ pt_call.op = "report_pattern_was_real_leak"
    /\ \E j \in 1..Len(StoredRows) :
          /\ StoredRows[j].pattern_id = pt_call.pattern_id
          /\ StoredRows[j].confidence = CONFIDENCE_FLOOR
          /\ StoredRows[j].times_was_real_leak >= 3

\* C17: no two rows of the store share a pattern_id; a repeated report of
\* the same site, category and fingerprint updates the row in place.
C17_UniquePatternIds ==
    \A j, k \in 1..Len(StoredRows) :
        StoredRows[j].pattern_id = StoredRows[k].pattern_id => j = k

\* C18: a pattern that report_pattern_was_real_leak deactivated is never
\* active again, whatever operations follow.
C18_DeactivationPermanent ==
    \A j \in 1..Len(StoredRows) :
        StoredRows[j].pattern_id \in deactivated_by_report
            => ~StoredRows[j].is_active

\* C19: concurrent writers of the pattern store never lose an update: once
\* every writer has saved, the pattern's counters show each writer's
\* increment.
C19_NoLostUpdate ==
    (\A w \in DOMAIN w_pc : w_pc[w] = "done") /\ pt_call.op = "writers" =>
        /\ StoredRows[1].times_matched =
               pt_call.before[1].times_matched
                 + Cardinality({ w \in DOMAIN w_op : w_op[w] = "update_pattern_match" })
        /\ StoredRows[1].times_confirmed_false =
               pt_call.before[1].times_confirmed_false
                 + Cardinality({ w \in DOMAIN w_op :
                                   w_op[w] = "confirm_pattern_was_false" })

Corrupt(file) == file.kind \in {"unparsable", "bad_json", "other_table"}

\* C20: with a corrupt or unreadable pattern file get_patterns_df returns an
\* empty table with the full schema, and match_incident_to_patterns and
\* check_should_suppress report no match and no suppression without raising.
C20_CorruptFileFallsBack ==
    (Corrupt(patterns_file) /\ pt_call.op # "none") =>
        /\ get_patterns_df(patterns_file) = [schema |-> TRUE, rows |-> << >>]
        /\ pt_call.op = "match_incident_to_patterns"
               => (~pt_call.raised /\ pt_call.matches = << >>)
        /\ pt_call.op = "check_should_suppress"
               => (~pt_call.raised /\ ~pt_call.suppress)


\* C21: in the scenario of a flat night flow that jumps to 400 L/h for five
\* days, no incident exists before the jump; the first jump day opens one
\* WATCH incident; every following jump day extends that incident (one more
\* persisted day, not closed, still the active one); the day's status is
\* INVESTIGATE or CALL exactly from the first day on which days_persisted
\* reaches the days needed, which is one of the jump days 3 to 5.
C21_JumpEscalates ==
    /\ (pc # "idle" /\ i <= 31) => incidents = << >>
    /\ \A d \in 31..35 :
         (pc # "idle" /\ d < i) =>
            /\ Len(incidents) = 1
            /\ active = 1
            /\ incidents[1].start_day = 31
            /\ incidents[1].close_reason = ""
            /\ daily_outputs[d].days_persisted = d - 30
            /\ d \in {31, 32} => daily_outputs[d].status = "WATCH"
            /\ d = 35 => daily_outputs[d].status \in {"INVESTIGATE", "CALL"}
    /\ (pc = "loop" /\ i \in 33..36) =>
         /\ incidents[1].last_day = i - 1
         /\ daily_outputs[i - 1].status \in {"INVESTIGATE", "CALL"}
              <=> \/ daily_outputs[i - 2].status \in {"INVESTIGATE", "CALL"}
                  \/ incidents[1].days_persisted >= Needed(incidents[1])

C21_Witness ==
    /\ pc = "done"
    /\ daily_outputs[31].status = "WATCH"
    /\ daily_outputs[33].status = "WATCH"
    /\ daily_outputs[34].status = "INVESTIGATE"
    /\ daily_outputs[35].status = "CALL"
    /\ incidents[1].days_persisted = 5

\* a processed, non-suppressed day i whose trigger condition holds
TriggeredDayStep ==
    /\ pc = "loop"
    /\ i' = i + 1
    /\ daily_outputs'[i].kind = "full"
    /\ Trigger(signal_components_by_date'[d_key(i)])

\* C22: a trigger day within merge_gap_days after the last_day of the most
\* recently committed incident, active or closed, is merged into that
\* incident (last_day becomes the day, days_persisted grows by 1 + gap) and
\* no incident is appended.
C22_TriggerInWindowMerges ==
    [][ ( /\ TriggeredDayStep
          /\ last_committed # 0
          /\ 0 < i - incidents[last_committed].last_day
          /\ i - incidents[last_committed].last_day <= cfg.merge_gap_days )
        => /\ Len(incidents') = Len(incidents)
           /\ incidents'[last_committed].last_day = i
           /\ incidents'[last_committed].days_persisted
                  = incidents[last_committed].days_persisted
                        + 1 + (i - incidents[last_committed].last_day - 1) ]_vars

\* a processed, non-suppressed day i
ProcessedDayStep ==
    /\ pc = "loop"
    /\ i' = i + 1
    /\ daily_outputs'[i].kind = "full"

\* C23: on a processed, non-suppressed day with no active incident, a
\* trigger appends exactly one incident with status WATCH, start_day =
\* last_day = the day, days_persisted = 1 and the day's deltaNF, severity,
\* confidence and fired signals; without trigger the incident list is left
\* as it was and the day's status is OK.
C23_OpensOnTriggerOnly ==
    [][ (ProcessedDayStep /\ active = 0)
        => LET snap == signal_components_by_date'[d_key(i)]
               opened == incidents'[Len(incidents')]
           IN  IF Trigger(snap)
               THEN /\ Len(incidents') = Len(incidents) + 1
                    /\ SubSeq(incidents', 1, Len(incidents)) = incidents
                    /\ opened.status = "WATCH"
                    /\ opened.start_day = i
                    /\ opened.last_day = i
                    /\ opened.days_persisted = 1
                    /\ opened.max_deltaNF = snap.deltaNF
                    /\ opened.severity_max
                           = get_severity(snap.deltaNF, cfg.severity_bands_lph)
                    /\ opened.confidence = confidence_by_date'[d_key(i)]
                    /\ opened.reason_codes = signals_fired_of(snap)
               ELSE /\ incidents' = incidents
                    /\ daily_outputs'[i].status = "OK" ]_vars

\* a second incident opened, after the first was closed, on a day with
\* deltaNF 300 and three more signals
C23_Witness ==
    /\ pc = "loop"
    /\ Len(incidents) = 2
    /\ active = 2
    /\ incidents[1].close_reason # ""
    /\ incidents[2].start_day = i - 1
    /\ incidents[2].days_persisted = 1
    /\ incidents[2].max_deltaNF = 300
    /\ incidents[2].reason_codes = {"MNF", "RESIDUAL", "CUSUM", "AFTERHRS"}

\* C24: on a processed, non-suppressed day, an active incident whose status
\* is WATCH (and is still WATCH after the day's escalation step) is closed
\* when the trigger fails, and also when the day triggers with deltaNF <=
\* max(3 x NF_MAD, theta_min): it gets a close_reason, is no longer active,
\* stays in the list, and the day's status is OK; an incident opened on such
\* a day is closed the same day.
C24_WatchCloses ==
    [][ ProcessedDayStep
        => LET snap == signal_components_by_date'[d_key(i)]
               resolved == snap.deltaNF <= Max2(3 * snap.NF_MAD, theta_min)
           IN  /\ ( /\ active # 0
                    /\ incidents[active].status = "WATCH"
                    /\ \/ ~Trigger(snap)
                       \/ (resolved /\ incidents'[active].status = "WATCH") )
                  => /\ Len(incidents') >= Len(incidents)
                     /\ incidents'[active].close_reason # ""
                     /\ active' = 0
                     /\ daily_outputs'[i].status = "OK"
               /\ (active = 0 /\ Trigger(snap) /\ resolved)
                  => /\ incidents'[Len(incidents')].start_day = i
                     /\ incidents'[Len(incidents')].close_reason # ""
                     /\ active' = 0
                     /\ daily_outputs'[i].status = "OK" ]_vars

\* C25: a processed day whose BURSTBF sub-score is positive and whose next
\* day's night-flow excess is at most theta_min is flagged "EPISODIC FILL"
\* with daily status OK, and the step leaves the incident list, the active
\* incident, the last committed incident and the confidence cache as they
\* were.
C25_EpisodicFillSkipsDay ==
    [][ ( /\ pc = "loop"
          /\ i' = i + 1
          /\ ~WarmingUp(i)
          /\ signal_components_by_date'[d_key(i)].sub_scores["BURSTBF"] > 0
          /\ i + 1 <= n
          /\ data'[i + 1].deltaNF <= theta_min )
        => /\ i \in DOMAIN pattern_suppressions'
           /\ pattern_suppressions'[i] = "EPISODIC FILL"
           /\ daily_outputs'[i].status = "OK"
           /\ daily_outputs'[i].suppressed = "EPISODIC FILL"
           /\ incidents' = incidents
           /\ active' = active
           /\ last_committed' = last_committed
           /\ confidence_by_date' = confidence_by_date ]_vars

\* a day was suppressed while a WATCH incident of an earlier day is active
C25_Witness ==
    /\ pc = "loop"
    /\ (i - 1) \in DOMAIN pattern_suppressions
    /\ active # 0
    /\ incidents[active].status = "WATCH"
    /\ incidents[active].last_day = i - 2
    /\ d_key(i - 1) \notin DOMAIN confidence_by_date

\* C26: incidents are never removed from the list and, at every point of a
\* run, every incident of the list other than the active one carries a
\* close_reason (the active incident is the single one `active` refers to).
C26_OneActiveRestClosed ==
    [][ /\ Len(incidents') >= Len(incidents)
        /\ \A k \in 1..Len(incidents) :
              incidents'[k].start_day = incidents[k].start_day
        /\ \A k \in 1..Len(incidents') :
              k # active' => incidents'[k].close_reason # "" ]_vars

\* C27: on a triggered day with an active incident, the incident that is
\* active after the day's placement has, once its attributes are updated,
\* status CALL when days_persisted >= days_needed and (rank >= 4 or (rank >=
\* 2 and confidence >= 70)), INVESTIGATE when days_persisted >= days_needed
\* otherwise, and its earlier status when days_persisted < days_needed; an
\* incident opened on the day is WATCH.
C27_EscalationRule ==
    [][ TriggeredDayStep
        => IF active # 0
           THEN LET fresh  == Len(incidents') > Len(incidents)
                    inc    == IF fresh THEN incidents'[Len(incidents')]
                                       ELSE incidents'[active]
                    before == IF fresh THEN "WATCH" ELSE incidents[active].status
                    rank   == sev_rank(inc.severity_max)
                IN  inc.status =
                        IF inc.days_persisted >= Needed(inc)
                        THEN IF rank >= 4 \/ (rank >= 2 /\ inc.confidence >= 70000)
                             THEN "CALL" ELSE "INVESTIGATE"
                        ELSE before
           ELSE incidents'[Len(incidents')].status = "WATCH" ]_vars

\* an incident of moderate severity escalated to CALL by its confidence
C27_Witness ==
    /\ active # 0
    /\ incidents[active].status = "CALL"
    /\ incidents[active].severity_max = "S2"
    /\ incidents[active].confidence >= 70000
    /\ incidents[active].days_persisted >= 3

\* C28: after a triggered day, the incident opened or extended that day has
\* alert_date = start_day + (days_needed - 1), with days_needed the
\* persistence gate of its current max_deltaNF, number of reason codes and
\* confidence; so alert_date is at least two days after start_day.
C28_AlertDateFollowsGate ==
    [][ TriggeredDayStep
        => LET inc == IF active = 0 \/ Len(incidents') > Len(incidents)
                      THEN incidents'[Len(incidents')]
                      ELSE incidents'[active]
               days_needed == get_persistence_needed(
                                  inc.max_deltaNF, Cardinality(inc.reason_codes),
                                  inc.confidence, cfg.persistence_gates)
           IN  /\ inc.last_day = i
               /\ inc.alert_date = inc.start_day + (days_needed - 1)
               /\ inc.alert_date >= inc.start_day + 2 ]_vars

\* an incident extended to a second day whose gate is four days
C28_Witness ==
    /\ active # 0
    /\ incidents[active].days_persisted = 2
    /\ incidents[active].last_day = i - 1
    /\ incidents[active].alert_date = incidents[active].start_day + 3

\* the two fingerprints agree exactly on every feature both of them have
AgreeWherePresent(fp1, fp2) ==
    /\ fp1.signals_active = fp2.signals_active
    /\ \A sg \in DOMAIN fp1.signal_scores \cap DOMAIN fp2.signal_scores :
          fp1.signal_scores[sg] = fp2.signal_scores[sg]
    /\ (fp1.mnf_value_Lph # 0 /\ fp2.mnf_value_Lph # 0)
          => fp1.mnf_value_Lph = fp2.mnf_value_Lph
    /\ (fp1.volume_range # << >> /\ fp2.volume_range # << >>)
          => fp1.volume_range = fp2.volume_range
    /\ (fp1.duration_range # << >> /\ fp2.duration_range # << >>)
          => fp1.duration_range = fp2.duration_range

\* C29: a feature absent from either fingerprint is skipped, so two
\* fingerprints with active signals that agree exactly on every feature
\* both of them have score 1.0.
C29_AbsentFeaturesSkipped ==
    ( /\ fp_result # -1
      /\ fp_args.fp1.signals_active # {}
      /\ AgreeWherePresent(fp_args.fp1, fp_args.fp2) )
    => fp_result = 1000

\* days since the most recent of a pattern's created / matched / updated
\* timestamps
DaysInactive(pattern, t) ==
    t - Max2(pattern.last_matched_at,
             Max2(pattern.last_updated_at, pattern.created_at))

\* C30: after cleanup_stale_patterns every previously active pattern
\* inactive for 120 days or more is inactive; every active pattern inactive
\* for 30 to 119 days has its confidence multiplied by 0.95 per elapsed
\* 30-day period, floored at 0.10 (to the stored three decimals); patterns
\* inactive for fewer than 30 days and already-inactive patterns are
\* unchanged.
C30_StalenessCleanup ==
    [][ (pt_call'.op = "cleanup_stale_patterns" /\ ops' = ops + 1) =>
          LET after == get_patterns_df(patterns_file').rows
          IN  /\ Len(after) = Len(StoredRows)
              /\ \A j \in 1..Len(StoredRows) :
                    LET days == DaysInactive(StoredRows[j], now)
                        decayed == Max2(CONFIDENCE_FLOOR * 1000000,
                                        StoredRows[j].confidence
                                          * DecayFactor(days \div CONFIDENCE_DECAY_PERIOD_DAYS))
                    IN  IF ~StoredRows[j].is_active \/ days < CONFIDENCE_DECAY_PERIOD_DAYS
                        THEN after[j] = StoredRows[j]
                        ELSE IF days >= STALENESS_THRESHOLD_DAYS
                        THEN ~after[j].is_active
                        ELSE /\ after[j].is_active
                             /\ Abs(after[j].confidence * 1000000 - decayed)
                                   < 1000000 ]_vars

(***************************************************************************)
(* Properties of detect_cusum                                              *)
(***************************************************************************)
\* the one-sided running statistic accumulated over every element of the
\* series, starting from 0, scaled as s_plus is
RECURSIVE RunningStatistic(_, _, _, _)
RunningStatistic(series, k, mad, j) ==
    IF j = 0 THEN 0
    ELSE Max2(0, RunningStatistic(series, k, mad, j - 1)
                   + CusumTerm(series, k, mad, j))

\* C31: detect_cusum returns 1 exactly when the running statistic
\* s[i] = max(0, s[i-1] + (x[i] - mean(series) - k*mad)), accumulated over
\* every element of the series from 0, exceeds h*mad at some index, and 0
\* otherwise.
C31_CusumFlag ==
    cs_result # -1 =>
        cs_result =
            IF \E j \in DOMAIN cs_args.series :
                  RunningStatistic(cs_args.series, cs_args.k, cs_args.mad, j)
                      > Len(cs_args.series) * cs_args.h * cs_args.mad
            THEN 1 ELSE 0

\* C32: after every processed day every incident of the list has
\* days_persisted = (last_day - start_day) + 1; a step either leaves an
\* incident's last_day and days_persisted alone or moves last_day to the
\* processed day and adds the days moved over (1 for a contiguous day,
\* 1 + the skipped days for a bridged gap) to days_persisted.
C32_DaysPersistedSpansIncident ==
    [][ /\ \A k \in 1..Len(incidents') :
              incidents'[k].days_persisted
                  = incidents'[k].last_day - incidents'[k].start_day + 1
        /\ \A k \in 1..Len(incidents) :
              k <= Len(incidents') =>
                \/ /\ incidents'[k].last_day = incidents[k].last_day
                   /\ incidents'[k].days_persisted = incidents[k].days_persisted
                \/ /\ pc = "loop"
                   /\ incidents'[k].last_day = i
                   /\ incidents'[k].days_persisted - incidents[k].days_persisted
                         = i - incidents[k].last_day ]_vars

\* an incident bridged over a day that did not extend it
C32_Witness ==
    \E k \in 1..Len(incidents) :
        /\ incidents[k].days_persisted
              = incidents[k].last_day - incidents[k].start_day + 1
        /\ \E e \in DOMAIN daily_outputs :
              /\ incidents[k].start_day < e
              /\ e < incidents[k].last_day
              /\ d_key(e) \notin DOMAIN incidents[k].signal_components_by_date

\* C33: no incident is confirmed early: an incident with status INVESTIGATE
\* or CALL has days_persisted >= 3, whatever the gates, severity and
\* confidence.
C33_NoEarlyConfirmation ==
    \A k \in 1..Len(incidents) :
        incidents[k].status \in {"INVESTIGATE", "CALL"}
            => incidents[k].days_persisted >= 3

\* an incident confirmed on its third day under gates that ask for fewer
C33_Witness ==
    \E k \in 1..Len(incidents) :
        /\ incidents[k].status \in {"INVESTIGATE", "CALL"}
        /\ incidents[k].days_persisted = 3
        /\ PersistenceNeededNoFloor(incidents[k].max_deltaNF,
                                    Cardinality(incidents[k].reason_codes),
                                    incidents[k].confidence,
                                    cfg.persistence_gates) < 3

\* C34: an incident's status never returns to WATCH: an incident that is
\* INVESTIGATE or CALL is INVESTIGATE or CALL after every step, and no step
\* sets the status of an incident already in the list to WATCH.
C34_StatusNeverBackToWatch ==
    [][ \A k \in 1..Len(incidents) :
          k <= Len(incidents') =>
            /\ incidents[k].status \in {"INVESTIGATE", "CALL"}
                  => incidents'[k].status \in {"INVESTIGATE", "CALL"}
            /\ incidents[k].status # "WATCH" => incidents'[k].status # "WATCH" ]_vars

\* a confirmed incident that lived through a later triggered day on which
\* its gate was no longer met
C34_Witness ==
    \E k \in 1..Len(incidents) :
        /\ incidents[k].status \in {"INVESTIGATE", "CALL"}
        /\ incidents[k].days_persisted < Needed(incidents[k])
        /\ active = k

\* C35: an incident that has been closed (close_reason set) is never
\* modified again: every field of it, the per-date archive included, stays
\* as it was at closure; and whenever an incident is active it is the most
\* recently appended incident of the list.
C35_ClosedIncidentFrozen ==
    [][ /\ \A k \in 1..Len(incidents) :
              incidents[k].close_reason # ""
                  => (k <= Len(incidents') /\ incidents'[k] = incidents[k])
        /\ active' # 0 => active' = Len(incidents') ]_vars

\* a closed incident followed, within merge_gap_days of its last day, by a
\* triggered day that opened the next incident
C35_Witness ==
    \E k \in 1..Len(incidents) :
        /\ incidents[k].close_reason # ""
        /\ k < Len(incidents)
        /\ incidents[k + 1].start_day - incidents[k].last_day <= cfg.merge_gap_days

\* C36: after every processed day every incident's confidence field equals
\* the frozen confidence_by_date value of its last_day and the confidence
\* stored for last_day in the incident's own signal_components_by_date
\* archive.
C36_ConfidenceIsLastDays ==
    \A k \in 1..Len(incidents) :
        LET key == d_key(incidents[k].last_day)
        IN  /\ key \in DOMAIN confidence_by_date
            /\ incidents[k].confidence = confidence_by_date[key]
            /\ key \in DOMAIN incidents[k].signal_components_by_date
            /\ incidents[k].confidence
                  = incidents[k].signal_components_by_date[key].confidence

\* an incident extended to a day whose confidence is lower than an earlier
\* day's
C36_Witness ==
    \E k \in 1..Len(incidents) :
        /\ incidents[k].last_day > incidents[k].start_day
        /\ incidents[k].confidence = confidence_by_date[d_key(incidents[k].last_day)]
        /\ incidents[k].confidence < confidence_by_date[d_key(incidents[k].start_day)]

\* the latest date scored by an earlier run of the replay whose caches were
\* carried over: it was first scored as the final day of the series it had
FinalOfEarlierRun ==
    CHOOSE e \in { k[2] : k \in DOMAIN prev_signal_components } :
        \A k \in DOMAIN prev_signal_components : k[2] <= e

\* C37: in a day-by-day replay with carried caches a date first scored while
\* it is the final day of the series gets BURSTBF = 0, keeps BURSTBF = 0 in
\* every later run, also when the next day's data has arrived, and is never
\* flagged EPISODIC FILL.
C37_FinalDayBurstStaysZero ==
    /\ (pc = "done" /\ d_key(n) \in DOMAIN signal_components_by_date)
          => signal_components_by_date[d_key(n)].sub_scores["BURSTBF"] = 0
    /\ prev_signal_components # EmptyMap
          => /\ d_key(FinalOfEarlierRun) \in DOMAIN signal_components_by_date
             /\ signal_components_by_date[d_key(FinalOfEarlierRun)]
                    .sub_scores["BURSTBF"] = 0
             /\ FinalOfEarlierRun \notin DOMAIN pattern_suppressions

\* a later run has finished: the earlier run's final day spiked (AFTERHRS is
\* 0.5 on spiky days only) and the day that arrived after it has a night-flow
\* excess that would have confirmed the burst
C37_Witness ==
    /\ pc = "done"
    /\ prev_signal_components # EmptyMap
    /\ FinalOfEarlierRun < n
    /\ signal_components_by_date[d_key(FinalOfEarlierRun)].sub_scores["AFTERHRS"] = 500
    /\ LET next == signal_components_by_date[d_key(FinalOfEarlierRun + 1)]
       IN  /\ next.deltaNF > Max2(3 * next.NF_MAD, cfg.abs_floor_lph)
           /\ next.deltaNF <= theta_min
    /\ signal_components_by_date[d_key(FinalOfEarlierRun)].sub_scores["BURSTBF"] = 0

\* C38: a pattern whose is_active flag is false is never returned by
\* match_incident_to_patterns, never makes check_should_suppress suppress
\* an incident, and check_should_suppress never changes its counters,
\* however similar the incident is and whatever its auto_suppress flag.
C38_InactivePatternInert ==
    [][ (pt_call'.op = "check_should_suppress" /\ ops' = ops + 1) =>
          LET matches == match_incident_to_patterns(StoredRows, pt_call'.incident, "S1")
              after == get_patterns_df(patterns_file').rows
          IN  /\ \A r \in 1..Len(matches) : StoredRows[matches[r].row].is_active
              /\ pt_call'.suppress => StoredRows[pt_call'.match.row].is_active
              /\ Len(after) = Len(StoredRows)
              /\ \A j \in 1..Len(StoredRows) :
                    ~StoredRows[j].is_active => after[j] = StoredRows[j] ]_vars

\* a row that has seen no match, confirmation or report since it was created
Untouched(pattern) ==
    /\ pattern.times_matched = 0
    /\ pattern.last_matched_at = 0
    /\ pattern.times_confirmed_false = 1
    /\ pattern.times_was_real_leak = 0

\* C39: intermediate cleanup runs do not postpone staleness deactivation: a
\* pattern that received no match, confirmation or report for 120
\* consecutive days is inactive after the first cleanup_stale_patterns run
\* at or after day 120, however many cleanup runs happened in between.
C39_CleanupDoesNotPostpone ==
    [][ (pt_call'.op = "cleanup_stale_patterns" /\ ops' = ops + 1) =>
          LET after == get_patterns_df(patterns_file').rows
          IN  \A j \in 1..Len(StoredRows) :
                ( /\ Untouched(StoredRows[j])
                  /\ now - StoredRows[j].created_at >= STALENESS_THRESHOLD_DAYS )
                => (j <= Len(after) /\ ~after[j].is_active) ]_vars

\* the row of before with the listed fields left out of the comparison
SameBut(after_row, before_row, fields) ==
    \A f \in (DOMAIN before_row) \ fields : after_row[f] = before_row[f]

\* C40 (as claimed): an update in place by record_pattern changes only the
\* pattern's times_confirmed_false (+1), confidence (+0.05, capped at 1.0)
\* and last_updated_at; its auto_suppress setting, fingerprints and season
\* tags and every other pattern are left unchanged.
C40_UpdateChangesThreeFields ==
    [][ ( /\ pt_call'.op = "record_pattern"
          /\ ops' = ops + 1
          /\ pt_call'.action = "updated" ) =>
          LET after == get_patterns_df(patterns_file').rows
          IN  /\ Len(after) = Len(StoredRows)
              /\ \A j \in 1..Len(StoredRows) :
                    IF StoredRows[j].pattern_id = pt_call'.pattern_id
                    THEN after[j] =
                           [StoredRows[j] EXCEPT
                              !.times_confirmed_false = @ + 1,
                              !.confidence = Min2(1000, @ + 50),
                              !.last_updated_at = now]
                    ELSE after[j] = StoredRows[j] ]_vars

\* C40 (amended): an update in place changes, on every row that carries the
\* matched pattern_id, times_confirmed_false (+1), confidence (the matched
\* row's confidence + 0.05, capped at 1.0), last_updated_at (now) and
\* auto_suppress (the auto_suppress argument of the call); every other field
\* of those rows and every row with another pattern_id are left unchanged,
\* and no row is added.
C40_UpdateChangesFourFields ==
    [][ ( /\ pt_call'.op = "record_pattern"
          /\ ops' = ops + 1
          /\ pt_call'.action = "updated" ) =>
          LET after == get_patterns_df(patterns_file').rows
          IN  /\ Len(after) = Len(StoredRows)
              /\ \E m \in 1..Len(StoredRows) :
                    /\ StoredRows[m].pattern_id = pt_call'.pattern_id
                    /\ StoredRows[m].is_active
                    /\ \A j \in 1..Len(StoredRows) :
                          IF StoredRows[j].pattern_id = pt_call'.pattern_id
                          THEN /\ after[j].times_confirmed_false
                                     = StoredRows[j].times_confirmed_false + 1
                               /\ after[j].confidence
                                     = Min2(1000, StoredRows[m].confidence + 50)
                               /\ after[j].last_updated_at = now
                               /\ after[j].auto_suppress = pt_call'.auto_suppress
                               /\ SameBut(after[j], StoredRows[j],
                                          {"times_confirmed_false", "confidence",
                                           "last_updated_at", "auto_suppress"})
                          ELSE after[j] = StoredRows[j] ]_vars

\* the first call on a store left behind, whose patterns all have
\* auto_suppress set, was a record_pattern with auto_suppress = False that
\* updated a pattern in place
C40_Witness ==
    /\ ops = 1
    /\ pt_call.op = "record_pattern"
    /\ pt_call.action = "updated"
    /\ ~pt_call.auto_suppress
    /\ \A rows \in {DoubtedStore, TrustedStore} :
          \A j \in 1..Len(rows) : rows[j].auto_suppress
    /\ \E j \in 1..Len(StoredRows) :
          /\ StoredRows[j].pattern_id = pt_call.pattern_id
          /\ ~StoredRows[j].auto_suppress
          /\ StoredRows[j].times_confirmed_false >= 2

====
